---- MODULE Spec2Model ----
(***************************************************************************)
(* The SolrCloud reconciliation loop of the solr-operator                  *)
(* (SolrCloudReconciler.Reconcile and its helpers reconcileZk,             *)
(* reconcileNodeService, reconcileCloudStatus) as a state machine over the *)
(* platform object store.                                                  *)
(*                                                                         *)
(* One pass of Reconcile is a sequence of steps, one per numbered step of  *)
(* the loop; every step performs its store calls (Get, Create, Update,     *)
(* List, status Update) atomically and appends them to the call log of the *)
(* pass.  Every store call may fail with an I/O error.  The dispatcher     *)
(* runs at most one pass per SolrCloud at a time; changes made by users    *)
(* and by the other controllers of the platform are serialised between     *)
(* passes: every object is read at most once per pass, so a change during  *)
(* a pass is seen either as a change before the pass or as one after it,   *)
(* and a lost update shows as a failed (conflicting) call.                 *)
(*                                                                         *)
(* Go strings that the code inspects (connection strings) are sequences of *)
(* tokens; a nil pointer is the empty tuple and a set pointer a 1-tuple.   *)
(***************************************************************************)
EXTENDS Integers, Sequences, FiniteSets, TLC

\* Largest replica count a user declares for the SolrCloud.
MaxReplicas == 1

\* Largest replica count a user declares for a provided Zookeeper.
MaxZkReplicas == 1

\* Number of store calls (and owner-reference settings) that fail in one
\* history of the store.
MaxFaults == 1

\* The customisations (labels, annotations) a user gives the SolrCloud; a
\* change of customisation changes every generated descriptor.
Customisations == {"plain", "labelled"}

\* Replica count filled in by SolrCloud.WithDefaults when none is declared.
DefaultSolrReplicas == 2

\* Image tag filled in by SolrCloud.WithDefaults.
DefaultSolrVersion == "8.2.0"

\* Client port of a ZookeeperCluster (ZookeeperPorts().Client), as printed by %d.
ZkClientPort == "2181"

NIL == <<>>

Some(x) == <<x>>

Deref(p) == p[1]

Max(a, b) == IF a >= b THEN a ELSE b

\* Node ordinals the model keeps a per-node service slot for.
MaxNodes == Max(MaxReplicas, DefaultSolrReplicas)

\* strings.Contains(s, tok) on a token sequence.
Contains(s, tok) == \E i \in DOMAIN s : s[i] = tok

\* strings.Join(parts, sep) on a sequence of token sequences.
RECURSIVE Join(_, _)
Join(parts, sep) ==
  IF Len(parts) = 0 THEN <<>>
  ELSE IF Len(parts) = 1 THEN parts[1]
  ELSE parts[1] \o <<sep>> \o Join(Tail(parts), sep)

------------------------------------------------------------------------------
(* Values of the API types *)

\* solr.ZookeeperConnectionInfo{}
ZkInfoZero == [internal |-> <<>>, external |-> NIL, chroot |-> <<>>]

\* solr.SolrCloudStatus{}
StatusZero ==
  [ solrNodes             |-> <<>>,
    replicas              |-> 0,
    readyReplicas         |-> 0,
    version               |-> "",
    targetVersion         |-> "",
    internalCommonAddress |-> "",
    externalCommonAddress |-> NIL,
    backupRestoreReady    |-> FALSE,
    zk                    |-> ZkInfoZero ]

\* SolrCloudStatus.ZkConnectionString: the internal connection string followed
\* by the chroot.
ZkConnectionString(status) == status.zk.internal \o status.zk.chroot

\* Connection infos a user gives for an externally hosted Zookeeper: one with
\* a host:port pair and one without.
UserConnectionInfos ==
  { [internal |-> <<"zk.example", ":", "2181">>, external |-> NIL, chroot |-> <<"/solr">>],
    [internal |-> <<"zk.example">>, external |-> NIL, chroot |-> <<>>] }

\* Provided-Zookeeper requests a user gives.
UserProvidedZookeepers ==
  { [replicas |-> n, chroot |-> <<"/solr">>] : n \in 0..MaxZkReplicas }

\* External addressability options a user gives.
\* Only the loop over the per-node services of the Ingress method reads
\* useExternalAddress.
UserExternalOptions ==
  { [method |-> "Ingress", useExternalAddress |-> u, hideNodes |-> FALSE,
     hideCommon |-> FALSE] : u \in BOOLEAN }
  \cup
  { [method |-> "ExternalDNS", useExternalAddress |-> FALSE, hideNodes |-> FALSE,
     hideCommon |-> FALSE] }


\* Zookeeper references a user gives: neither kind, either kind, or both; of
\* those naming both, the ones that request the largest provided Zookeeper.
UserZookeeperRefs ==
  { zk \in { [connectionInfo |-> ci, provided |-> pz] :
               ci \in {NIL} \cup { Some(c) : c \in UserConnectionInfos },
               pz \in {NIL} \cup { Some(p) : p \in UserProvidedZookeepers } } :
      (zk.connectionInfo # NIL /\ zk.provided # NIL)
        => Deref(zk.provided).replicas = MaxZkReplicas }

\* SolrCloud specs a user submits; one without a replica count also leaves the
\* image tag unset, both for WithDefaults to fill.
UserSpecs ==
  { [ replicas            |-> r,
      tag                 |-> IF r = NIL THEN "" ELSE DefaultSolrVersion,
      zkRef               |-> zk,
      external            |-> ext,
      backupRestoreVolume |-> NIL,
      rev                 |-> "plain" ] :
      r \in {NIL} \cup { Some(n) : n \in 1..MaxReplicas },
      zk \in UserZookeeperRefs,
      ext \in {NIL} \cup { Some(e) : e \in UserExternalOptions } }

\* SolrCloud.WithDefaults: fills the unset replica count and image tag;
\* <<changed, spec>>.  It never fills in a Zookeeper reference.
WithDefaults(spec) ==
  LET filled == [spec EXCEPT
                   !.replicas = IF spec.replicas = NIL
                                THEN Some(DefaultSolrReplicas) ELSE @,
                   !.tag      = IF spec.tag = "" THEN DefaultSolrVersion ELSE @]
  IN  <<filled # spec, filled>>

\* SolrCloud.GetAllSolrNodeNames: the node ordinals 0..replicas-1, standing
\* for the names <cloud>-solrcloud-<ordinal>.
GetAllSolrNodeNames(inst) ==
  [i \in 1..Deref(inst.spec.replicas) |-> i - 1]

\* SolrCloud.UsesIndividualNodeServices
UsesIndividualNodeServices(inst) ==
  /\ inst.spec.external # NIL
  /\ Deref(inst.spec.external).method = "Ingress"

\* SolrCloud.UsesHeadlessService
UsesHeadlessService(inst) == ~UsesIndividualNodeServices(inst)

------------------------------------------------------------------------------
(* Descriptor generators and field-copy reconcilers *)

\* controllerutil.SetControllerReference(instance, obj, scheme)
SetControllerReference(obj) == [obj EXCEPT !.owner = "solrcloud"]

\* util.GenerateCommonService
GenerateCommonService(inst) ==
  [fields |-> [rev |-> inst.spec.rev], clusterIP |-> "", owner |-> ""]

\* util.GenerateNodeService
GenerateNodeService(inst, nodeName) ==
  [fields |-> [rev |-> inst.spec.rev, node |-> nodeName], clusterIP |-> "", owner |-> ""]

\* util.GenerateHeadlessService
GenerateHeadlessService(inst) ==
  [fields |-> [rev |-> inst.spec.rev], clusterIP |-> "", owner |-> ""]

\* util.GenerateConfigMap
GenerateConfigMap(inst) ==
  [fields |-> [rev |-> inst.spec.rev], owner |-> ""]

\* util.GenerateStatefulSet
GenerateStatefulSet(inst, status, hostAliases) ==
  [fields |-> [rev         |-> inst.spec.rev,
               replicas    |-> Deref(inst.spec.replicas),
               tag         |-> inst.spec.tag,
               zk          |-> ZkConnectionString(status),
               hostAliases |-> hostAliases],
   status |-> [replicas |-> 0, readyReplicas |-> 0],
   owner  |-> ""]

\* util.GenerateIngress
GenerateIngress(inst, nodeNames) ==
  [fields |-> [rev |-> inst.spec.rev, nodes |-> nodeNames], owner |-> ""]

\* util.GenerateZookeeperCluster
GenerateZookeeperCluster(inst, pzk) ==
  [fields |-> [rev |-> inst.spec.rev, replicas |-> pzk.replicas],
   externalClientEndpoint |-> <<>>, owner |-> ""]

\* util.CopyServiceFields, CopyConfigMapFields, CopyStatefulSetFields,
\* CopyIngressFields, CopyZookeeperClusterFields: does the live object differ
\* from the descriptor in the fields the operator owns.
CopyRequiresUpdate(from, to) == to.fields # from.fields

\* The live object after the copy: the owned fields of the descriptor, every
\* other field (cluster IP, status, owner) as the platform left it.
CopyFields(from, to) == [to EXCEPT !.fields = from.fields]

------------------------------------------------------------------------------
(* State *)

VARIABLES
  useZkCRD,          \* process-wide flag set by UseZkCRD at start-up
  cloud,             \* the SolrCloud object in the store: NIL or Some([spec, status])
  zkCluster,         \* the ZookeeperCluster in the store
  commonService,     \* the common Service in the store
  nodeServices,      \* the per-node Services in the store, by node ordinal
  headlessService,   \* the headless Service in the store
  configMap,         \* the ConfigMap in the store
  statefulSet,       \* the StatefulSet in the store
  ingress,           \* the Ingress in the store
  pods,              \* the Solr pods of the cloud, in name order
  pc,                \* position of the running pass; "idle" or "done" between passes
  instance,          \* Reconcile's local: the fetched SolrCloud
  newStatus,         \* Reconcile's local newStatus
  blockReconciliationOfStatefulSet,
  hostNameIpMap,     \* Reconcile's local: set of <<node, ip>>
  nodeIdx,           \* position of the loop over solrNodeNames
  err,               \* Reconcile's local err
  result,            \* what the last pass returned: [requeue, err]
  calls,             \* the store calls of the current (or just finished) pass
  faults,            \* how many calls have failed so far
  prev,              \* summary of the pass before, when this one followed it directly
  spe,               \* the SolrPrometheusExporter that WithDefaults is applied to
  defaultsChanged,   \* what the last application of WithDefaults returned
  applied,           \* how many times WithDefaults or a generator has been applied
  generated,         \* the descriptor the last exporter generator returned
  staleReads         \* the reads of dependent resources come from a cache that may lag

storeVars == <<cloud, zkCluster, commonService, nodeServices, headlessService,
               configMap, statefulSet, ingress, pods>>

localVars == <<instance, newStatus, blockReconciliationOfStatefulSet,
               hostNameIpMap, nodeIdx, err>>

defaultsVars == <<spe, defaultsChanged, applied, generated, staleReads>>

vars == <<useZkCRD, storeVars, pc, localVars, result, calls, faults, prev, defaultsVars>>

\* The outcomes a call may have: it may fail while failures remain.
Faulty == IF faults < MaxFaults THEN BOOLEAN ELSE {FALSE}

\* Count the failure of this step, if it had one.
Counted(failed) == faults' = IF failed THEN faults + 1 ELSE faults

\* A Go error value: its kind and, for a failed store call, the position of
\* that call in the call log of the pass.
Err(type, at) == [type |-> type, at |-> at]

NoErr == Err("nil", 0)

\* errors.NewBadRequest
BadRequest == Err("badRequest", 0)

\* The error SetControllerReference returns when it cannot set the owner.
OwnerErr == Err("owner", 0)

Call(op, kind, name, res) == [op |-> op, kind |-> kind, name |-> name, res |-> res]

IsMutating(c) == c.op \in {"Create", "Update", "StatusUpdate"}

ResultZero == [requeue |-> FALSE, err |-> NoErr]

InstanceZero == [spec |-> [replicas |-> NIL, tag |-> "",
                          zkRef |-> [connectionInfo |-> NIL, provided |-> NIL],
                          external |-> NIL, backupRestoreVolume |-> NIL, rev |-> ""],
                 status |-> StatusZero]

\* No pass ran directly before this one, or it met a failure.
PrevZero == "none"

Init ==
  /\ useZkCRD \in BOOLEAN
  /\ cloud = NIL
  /\ zkCluster = NIL
  /\ commonService = NIL
  /\ nodeServices = [i \in 0..(MaxNodes - 1) |-> NIL]
  /\ headlessService = NIL
  /\ configMap = NIL
  /\ statefulSet = NIL
  /\ ingress = NIL
  /\ pods = <<>>
  /\ pc = "idle"
  /\ instance = InstanceZero
  /\ newStatus = StatusZero
  /\ blockReconciliationOfStatefulSet = FALSE
  /\ hostNameIpMap = {}
  /\ nodeIdx = 0
  /\ err = NoErr
  /\ result = ResultZero
  /\ calls = <<>>
  /\ faults = 0
  /\ prev = PrevZero
  /\ spe = NIL
  /\ defaultsChanged = FALSE
  /\ applied = 0
  /\ generated = NIL
  /\ staleReads = FALSE

------------------------------------------------------------------------------
(* The platform and the user *)

Between == pc \in {"idle", "done"}

\* A change in the store ends the record of the finished pass: the dispatcher
\* is idle and the next pass starts afresh.
Forget ==
  /\ pc' = "idle"
  /\ instance' = InstanceZero
  /\ newStatus' = StatusZero
  /\ blockReconciliationOfStatefulSet' = FALSE
  /\ hostNameIpMap' = {}
  /\ nodeIdx' = 0
  /\ err' = NoErr
  /\ result' = ResultZero
  /\ calls' = <<>>
  /\ prev' = PrevZero
  /\ UNCHANGED faults

\* A user creates the SolrCloud.
UserCreates ==
  /\ Between
  /\ cloud = NIL
  /\ \E spec \in UserSpecs : cloud' = Some([spec |-> spec, status |-> StatusZero])
  /\ Forget
  /\ UNCHANGED <<useZkCRD, zkCluster, commonService, nodeServices, headlessService,
                 configMap, statefulSet, ingress, pods>>
  /\ UNCHANGED defaultsVars

\* A user changes the customisation of the SolrCloud.
UserEdits ==
  /\ Between
  /\ cloud # NIL
  /\ \E rev \in Customisations \ {Deref(cloud).spec.rev} :
       cloud' = Some([Deref(cloud) EXCEPT !.spec.rev = rev])
  /\ Forget
  /\ UNCHANGED <<useZkCRD, zkCluster, commonService, nodeServices, headlessService,
                 configMap, statefulSet, ingress, pods>>
  /\ UNCHANGED defaultsVars

\* The platform assigns a cluster-internal address to a per-node Service that
\* has none (the loop reads the address of no other Service).
AssignIP(svc) == Some([Deref(svc) EXCEPT !.clusterIP = "10.0.0.1"])

PlatformAssignsClusterIP ==
  /\ Between
  /\ \E i \in DOMAIN nodeServices :
       /\ nodeServices[i] # NIL /\ Deref(nodeServices[i]).clusterIP = ""
       /\ nodeServices' = [nodeServices EXCEPT ![i] = AssignIP(@)]
  /\ Forget
  /\ UNCHANGED <<useZkCRD, cloud, zkCluster, commonService, headlessService, configMap,
                 statefulSet, ingress, pods>>
  /\ UNCHANGED defaultsVars

\* The Zookeeper operator reports the external client endpoint of the cluster.
ZkOperatorReportsEndpoint ==
  /\ Between
  /\ zkCluster # NIL
  /\ Deref(zkCluster).externalClientEndpoint = <<>>
  /\ zkCluster' = Some([Deref(zkCluster) EXCEPT
                          !.externalClientEndpoint = <<"zk.ext", ":", ZkClientPort>>])
  /\ Forget
  /\ UNCHANGED <<useZkCRD, cloud, commonService, nodeServices, headlessService, configMap,
                 statefulSet, ingress, pods>>
  /\ UNCHANGED defaultsVars

\* A pod the StatefulSet controller runs for ordinal i: scheduled, its one
\* container ready, running the image of the StatefulSet.
PodOf(sts, i) ==
  [name |-> i, nodeName |-> "worker", containerStatuses |-> <<TRUE>>,
   version |-> sts.fields.tag, volumes |-> {}]

\* The StatefulSet controller brings the pods of the StatefulSet up and
\* reports them in its status.
WorkloadRuns ==
  /\ Between
  /\ statefulSet # NIL
  /\ LET sts == Deref(statefulSet)
         n   == sts.fields.replicas
     IN  /\ sts.status.replicas # n
         /\ statefulSet' = Some([sts EXCEPT !.status = [replicas |-> n, readyReplicas |-> n]])
         /\ pods' = [i \in 1..n |-> PodOf(sts, i - 1)]
  /\ Forget
  /\ UNCHANGED <<useZkCRD, cloud, zkCluster, commonService, nodeServices, headlessService,
                 configMap, ingress>>
  /\ UNCHANGED defaultsVars

------------------------------------------------------------------------------
(* One pass of SolrCloudReconciler.Reconcile *)

\* A faulty variant of StepAfter: the StatefulSet comes before the ConfigMap.
StepAfterWorkloadFirst(step) ==
  CASE step = "zk"          -> "common"
    [] step = "common"      -> "nodes"
    [] step = "nodes"       -> "headless"
    [] step = "headless"    -> "statefulset"
    [] step = "statefulset" -> "configmap"
    [] step = "configmap"   -> "status"
    [] step = "status"      -> "ingress"
    [] step = "ingress"     -> "persist"

\* The step Reconcile goes on with when a step is through: the order of the
\* statements of Reconcile.
StepAfter(step) ==
  CASE step = "zk"          -> "common"
    [] step = "common"      -> "nodes"
    [] step = "nodes"       -> "headless"
    [] step = "headless"    -> "configmap"
    [] step = "configmap"   -> "statefulset"
    [] step = "statefulset" -> "status"
    [] step = "status"      -> "ingress"
    [] step = "ingress"     -> "persist"

\* return result, err
Return(requeue, e) ==
  /\ pc' = "done"
  /\ result' = [requeue |-> requeue, err |-> e]

\* What r.Get answers for a stored object.
GetOutcome(obj, fails) ==
  IF fails THEN "fail" ELSE IF obj = NIL THEN "notfound" ELSE "ok"

WriteOutcome(fails) == IF fails THEN "fail" ELSE "ok"

AnyFailed(log) == \E i \in DOMAIN log : log[i].res = "fail"

\* The pass met a failure: a store call failed or it returned an error.
Failed(log, res) == AnyFailed(log) \/ res.err # NoErr

\* The pass was still building: it created a dependent resource or persisted
\* the defaults of the spec.
Building(log) ==
  \E i \in DOMAIN log :
    \/ log[i].op = "Create"
    \/ log[i].op = "Update" /\ log[i].kind = "SolrCloud"

\* What the direct successor of a finished pass keeps of it: "none" when it
\* met a failure, "building" when it was still building, "updating" when it
\* only updated resources or the status, "settled" when it changed nothing.
Summary ==
  IF Failed(calls, result) THEN "none"
  ELSE IF Building(calls) THEN "building"
  ELSE IF \E i \in DOMAIN calls : IsMutating(calls[i]) THEN "updating"
  ELSE "settled"

\* A faulty variant of FetchReturns: not-found is returned as an error.
FetchReturnsNotFoundAsError(res) == [requeue |-> FALSE, err |-> Err("io", 1)]

\* What Reconcile returns when the fetch did not find the SolrCloud (nothing
\* to do) or failed (the error).
FetchReturns(res) ==
  [requeue |-> FALSE, err |-> IF res = "notfound" THEN NoErr ELSE Err("io", 1)]

\* Fetch the SolrCloud instance.
Fetch ==
  /\ pc \in {"idle", "done"}
  /\ prev' = IF pc = "done" THEN Summary ELSE PrevZero
  /\ newStatus' = StatusZero
  /\ blockReconciliationOfStatefulSet' = FALSE
  /\ hostNameIpMap' = {}
  /\ nodeIdx' = 0
  /\ \E fails \in Faulty :
       LET res == GetOutcome(cloud, fails)
           log == <<Call("Get", "SolrCloud", "cloud", res)>>
       IN  /\ calls' = log
           /\ Counted(res = "fail")
           /\ IF res # "ok"
                THEN /\ Return(FetchReturns(res).requeue, FetchReturns(res).err)
                     /\ err' = Err(IF res = "notfound" THEN "notfound" ELSE "io", 1)
                     /\ instance' = InstanceZero
              ELSE /\ pc' = "defaults"
                   /\ result' = ResultZero
                   /\ err' = NoErr
                   /\ instance' = Deref(cloud)
  /\ UNCHANGED <<useZkCRD, storeVars>>
  /\ UNCHANGED defaultsVars

\* A faulty variant of DefaultsPersisted: the pass goes on after the Update.
DefaultsPersistedGoesOn ==
  /\ pc' = "zk"
  /\ result' = ResultZero

\* After the defaults are persisted the pass ends and asks for a requeue.
DefaultsPersisted == Return(TRUE, NoErr)

\* Fill in the defaults; persist them and requeue when any was missing.
Defaults ==
  /\ pc = "defaults"
  /\ LET wd      == WithDefaults(instance.spec)
         changed == wd[1]
     IN  /\ instance' = [instance EXCEPT !.spec = wd[2]]
         /\ IF changed
              THEN \E fails \in Faulty :
                     LET res == WriteOutcome(fails)
                         log == Append(calls, Call("Update", "SolrCloud", "cloud", res))
                     IN  /\ calls' = log
                         /\ Counted(fails)
                         /\ IF fails
                              THEN /\ Return(FALSE, Err("io", Len(log)))
                                   /\ UNCHANGED cloud
                              ELSE /\ DefaultsPersisted
                                   /\ cloud' = Some([Deref(cloud) EXCEPT !.spec = wd[2]])
              ELSE /\ pc' = "zk"
                   /\ UNCHANGED <<cloud, calls, result, faults>>
  /\ UNCHANGED <<useZkCRD, zkCluster, commonService, nodeServices, headlessService,
                 configMap, statefulSet, ingress, pods, newStatus,
                 blockReconciliationOfStatefulSet, hostNameIpMap, nodeIdx, err, prev>>
  /\ UNCHANGED defaultsVars

\* A faulty variant of CreateOrUpdate: an object that is found is left as it
\* is.
CreateOrUpdateKeepsFound(kind, name, descriptor, stored, getFails, writeFails) ==
  LET getRes == GetOutcome(stored, getFails)
      get    == Call("Get", kind, name, getRes)
      wres   == WriteOutcome(writeFails)
  IN  IF getRes = "fail"
        THEN [log |-> <<get>>, stored |-> stored, get |-> getRes, failed |-> TRUE,
              found |-> descriptor]
      ELSE IF getRes = "notfound"
        THEN [log    |-> <<get, Call("Create", kind, name, wres)>>,
              stored |-> IF writeFails THEN stored ELSE Some(descriptor),
              get    |-> getRes, failed |-> writeFails,
              found  |-> descriptor]
      ELSE [log |-> <<get>>, stored |-> stored, get |-> getRes, failed |-> FALSE,
            found |-> Deref(stored)]

\* A faulty variant of CreateOrUpdate: the object is created as generated,
\* without the owner reference.
CreateOrUpdateUnowned(kind, name, descriptor, stored, getFails, writeFails) ==
  LET getRes == GetOutcome(stored, getFails)
      get    == Call("Get", kind, name, getRes)
      wres   == WriteOutcome(writeFails)
  IN  IF getRes = "fail"
        THEN [log |-> <<get>>, stored |-> stored, get |-> getRes, failed |-> TRUE,
              found |-> descriptor]
      ELSE IF getRes = "notfound"
        THEN [log    |-> <<get, Call("Create", kind, name, wres)>>,
              stored |-> IF writeFails THEN stored
                         ELSE Some([descriptor EXCEPT !.owner = ""]),
              get    |-> getRes, failed |-> writeFails,
              found  |-> descriptor]
      ELSE [log |-> <<get>>, stored |-> stored, get |-> getRes, failed |-> FALSE,
            found |-> Deref(stored)]

\* A faulty variant of CreateOrUpdate: an Update writes the generated
\* descriptor in place of the live object.
CreateOrUpdateWritesDescriptor(kind, name, descriptor, stored, getFails, writeFails) ==
  LET getRes == GetOutcome(stored, getFails)
      get    == Call("Get", kind, name, getRes)
      wres   == WriteOutcome(writeFails)
  IN  IF getRes = "fail"
        THEN [log |-> <<get>>, stored |-> stored, get |-> getRes, failed |-> TRUE,
              found |-> descriptor]
      ELSE IF getRes = "notfound"
        THEN [log    |-> <<get, Call("Create", kind, name, wres)>>,
              stored |-> IF writeFails THEN stored ELSE Some(descriptor),
              get    |-> getRes, failed |-> writeFails,
              found  |-> descriptor]
      ELSE IF CopyRequiresUpdate(descriptor, Deref(stored))
        THEN [log    |-> <<get, Call("Update", kind, name, wres)>>,
              stored |-> IF writeFails THEN stored ELSE Some(descriptor),
              get    |-> getRes, failed |-> writeFails,
              found  |-> descriptor]
      ELSE [log |-> <<get>>, stored |-> stored, get |-> getRes, failed |-> FALSE,
            found |-> Deref(stored)]

\* A faulty variant of CreateOrUpdate: a Create that follows a stale read
\* replaces the object that is in the store.
CreateOrUpdateCreateOverwrites(kind, name, descriptor, stored, getFails, writeFails) ==
  LET stale  == staleReads /\ getFails
      getRes == IF stale THEN "notfound" ELSE GetOutcome(stored, getFails)
      get    == Call("Get", kind, name, getRes)
      wres   == WriteOutcome(writeFails)
  IN  IF getRes = "fail"
        THEN [log |-> <<get>>, stored |-> stored, get |-> getRes, failed |-> TRUE,
              found |-> descriptor]
      ELSE IF getRes = "notfound"
        THEN [log    |-> <<get, Call("Create", kind, name, wres)>>,
              stored |-> IF writeFails THEN stored ELSE Some(descriptor),
              get    |-> getRes, failed |-> writeFails,
              found  |-> descriptor]
      ELSE IF CopyRequiresUpdate(descriptor, Deref(stored))
        THEN [log    |-> <<get, Call("Update", kind, name, wres)>>,
              stored |-> IF writeFails THEN stored
                         ELSE Some(CopyFields(descriptor, Deref(stored))),
              get    |-> getRes, failed |-> writeFails,
              found  |-> CopyFields(descriptor, Deref(stored))]
      ELSE [log |-> <<get>>, stored |-> stored, get |-> getRes, failed |-> FALSE,
            found |-> Deref(stored)]

\* The calls and the stored object of the create-or-update pattern for one
\* dependent resource: Get it; Create the descriptor when it is not found;
\* when it is found and the field copy changes it, Update the found object.
\* found: the live object as the code holds it after the pattern.
\* With reads from a lagging cache the Get may answer not-found for an object
\* that is in the store (this takes the place of a failing Get); the store
\* refuses the Create of an object that exists.
CreateOrUpdate(kind, name, descriptor, stored, getFails, writeFails) ==
  LET stale  == staleReads /\ getFails
      getRes == IF stale THEN "notfound" ELSE GetOutcome(stored, getFails)
      get    == Call("Get", kind, name, getRes)
      exists == stored # NIL
      wres   == WriteOutcome(writeFails)
  IN  IF getRes = "fail"
        THEN [log |-> <<get>>, stored |-> stored, get |-> getRes, failed |-> TRUE,
              found |-> descriptor]
      ELSE IF getRes = "notfound"
        THEN [log    |-> <<get, Call("Create", kind, name, WriteOutcome(exists \/ writeFails))>>,
              stored |-> IF exists \/ writeFails THEN stored ELSE Some(descriptor),
              get    |-> getRes, failed |-> exists \/ writeFails,
              found  |-> descriptor]
      ELSE IF CopyRequiresUpdate(descriptor, Deref(stored))
        THEN [log    |-> <<get, Call("Update", kind, name, wres)>>,
              stored |-> IF writeFails THEN stored
                         ELSE Some(CopyFields(descriptor, Deref(stored))),
              get    |-> getRes, failed |-> writeFails,
              found  |-> CopyFields(descriptor, Deref(stored))]
      ELSE [log |-> <<get>>, stored |-> stored, get |-> getRes, failed |-> FALSE,
            found |-> Deref(stored)]

\* The connection info reconcileZk derives for a provided Zookeeper: one
\* ordinal-indexed host:port entry per declared replica, the reported external
\* endpoint (nil when empty) and the requested chroot.
ProvidedZkConnectionInfo(zkc, foundZkCluster, pzk) ==
  LET internal == [i \in 1..zkc.fields.replicas |->
                     <<"zk-", ToString(i - 1), ".zk-headless.ns", ":", ZkClientPort>>]
  IN  [internal |-> Join(internal, ","),
       external |-> IF foundZkCluster.externalClientEndpoint = <<>> THEN NIL
                    ELSE Some(foundZkCluster.externalClientEndpoint),
       chroot   |-> pzk.chroot]

\* reconcileZk with an external connection info: adopt it as given.
ZkAdopt ==
  /\ newStatus' = [newStatus EXCEPT !.zk = Deref(instance.spec.zkRef.connectionInfo)]
  /\ pc' = StepAfter("zk")
  /\ UNCHANGED <<zkCluster, calls, result, faults>>

\* reconcileZk asked for a provided Zookeeper while the Zookeeper CRD is off.
ZkCRDDisabled ==
  /\ Return(FALSE, BadRequest)
  /\ UNCHANGED <<zkCluster, calls, newStatus, faults>>

\* A faulty variant of StatusAfterZk: the connection info is derived from
\* the ZookeeperCluster just created as well.
StatusAfterZkCreated(status, get, info) == [status EXCEPT !.zk = info]

\* newStatus after the ZookeeperCluster was looked up: the connection info is
\* set when the Get succeeded, and only then.
StatusAfterZk(status, get, info) ==
  IF get = "ok" THEN [status EXCEPT !.zk = info] ELSE status

\* reconcileZk with a provided Zookeeper: create or update the
\* ZookeeperCluster and, when one was found, derive the connection info.
ZkProvide ==
  \E ownerFails, getFails, writeFails \in Faulty :
    IF ownerFails
      THEN /\ Return(FALSE, OwnerErr)
           /\ Counted(TRUE)
           /\ UNCHANGED <<zkCluster, calls, newStatus>>
    ELSE
      LET pzk == Deref(instance.spec.zkRef.provided)
          zkc == SetControllerReference(GenerateZookeeperCluster(instance, pzk))
          r   == CreateOrUpdate("ZookeeperCluster", "zk", zkc, zkCluster,
                                getFails, writeFails)
          log == calls \o r.log
      IN  /\ calls' = log
          /\ Counted(r.failed)
          /\ zkCluster' = r.stored
          /\ newStatus' = StatusAfterZk(newStatus, r.get,
                                         ProvidedZkConnectionInfo(zkc, r.found, pzk))
          /\ IF r.failed
               THEN Return(FALSE, Err("io", Len(log)))
             ELSE pc' = StepAfter("zk") /\ UNCHANGED result

\* A faulty variant of ZkNoReference: the pass goes on without a reference.
ZkNoReferenceGoesOn ==
  /\ pc' = "common"
  /\ UNCHANGED <<zkCluster, calls, newStatus, faults, result>>

\* reconcileZk with no Zookeeper reference at all.
ZkNoReference ==
  /\ Return(FALSE, BadRequest)
  /\ UNCHANGED <<zkCluster, calls, newStatus, faults>>

\* A faulty variant of ZkBranch: the CRD flag is not consulted.
ZkBranchUncheckedCRD(zkRef, crd) ==
  IF zkRef.connectionInfo # NIL THEN "adopt"
  ELSE IF zkRef.provided # NIL THEN "provide"
  ELSE "none"

\* The branch reconcileZk takes for a Zookeeper reference: the connection info
\* when there is one, else the provided Zookeeper when one is requested.
ZkBranch(zkRef, crd) ==
  IF zkRef.connectionInfo # NIL THEN "adopt"
  ELSE IF zkRef.provided # NIL THEN (IF ~crd THEN "disabled" ELSE "provide")
  ELSE "none"

\* reconcileZk: resolve the Zookeeper connection info into newStatus.
ReconcileZk ==
  /\ pc = "zk"
  /\ LET branch == ZkBranch(instance.spec.zkRef, useZkCRD)
     IN  IF branch = "adopt" THEN ZkAdopt
         ELSE IF branch = "disabled" THEN ZkCRDDisabled
         ELSE IF branch = "provide" THEN ZkProvide
         ELSE ZkNoReference
  /\ UNCHANGED <<useZkCRD, cloud, commonService, nodeServices, headlessService, configMap,
                 statefulSet, ingress, pods, instance, blockReconciliationOfStatefulSet,
                 hostNameIpMap, nodeIdx, err, prev>>
  /\ UNCHANGED defaultsVars

\* Reconcile the common Service.
CommonService ==
  /\ pc = "common"
  /\ \E ownerFails, getFails, writeFails \in Faulty :
       IF ownerFails
         THEN /\ Return(FALSE, OwnerErr)
              /\ Counted(TRUE) /\ UNCHANGED <<commonService, calls, err>>
       ELSE
         LET svc == SetControllerReference(GenerateCommonService(instance))
             r   == CreateOrUpdate("Service", "common", svc, commonService,
                                   getFails, writeFails)
             log == calls \o r.log
         IN  /\ calls' = log
             /\ Counted(r.failed)
             /\ commonService' = r.stored
             /\ err' = IF r.failed THEN Err("io", Len(log)) ELSE NoErr
             /\ IF r.get = "fail"
                  THEN Return(FALSE, Err("io", Len(log)))
                ELSE pc' = StepAfter("common") /\ UNCHANGED result
  /\ UNCHANGED <<useZkCRD, cloud, zkCluster, nodeServices, headlessService, configMap,
                 statefulSet, ingress, pods, instance, newStatus,
                 blockReconciliationOfStatefulSet, hostNameIpMap, nodeIdx, prev>>
  /\ UNCHANGED defaultsVars

\* A faulty variant of BlockAfterNode: advertising the external address
\* blocks the StatefulSet whatever the address of the Service.
BlockAfterNodeAlways(block, useExternalAddress, ip) ==
  IF useExternalAddress THEN TRUE ELSE block

\* A faulty variant of BlockAfterNode: an empty address is not recorded.
BlockAfterNodeForgets(block, useExternalAddress, ip) == block

\* blockReconciliationOfStatefulSet after a node Service was reconciled: set
\* when the external address is advertised and the Service has no address.
BlockAfterNode(block, useExternalAddress, ip) ==
  IF useExternalAddress /\ ip = "" THEN TRUE ELSE block

\* hostNameIpMap after a node Service was reconciled.
HostNameIpMapAfterNode(map, useExternalAddress, nodeName, ip) ==
  IF useExternalAddress /\ ip # "" THEN map \cup {<<nodeName, ip>>} ELSE map

\* One turn of the loop over solrNodeNames: reconcileNodeService for the node
\* at nodeIdx; past the last node, or without individual node services, go on.
NodeService ==
  /\ pc = "nodes"
  /\ LET solrNodeNames == GetAllSolrNodeNames(instance)
     IN  IF ~UsesIndividualNodeServices(instance) \/ nodeIdx >= Len(solrNodeNames)
           THEN /\ pc' = StepAfter("nodes")
                /\ UNCHANGED <<nodeServices, calls, result, nodeIdx, faults,
                               blockReconciliationOfStatefulSet, hostNameIpMap>>
         ELSE \E ownerFails, getFails, writeFails \in Faulty :
           IF ownerFails
             THEN /\ Return(FALSE, OwnerErr)
                  /\ Counted(TRUE) /\ UNCHANGED <<nodeServices, calls, nodeIdx,
                                 blockReconciliationOfStatefulSet, hostNameIpMap>>
           ELSE
             LET nodeName == solrNodeNames[nodeIdx + 1]
                 svc == SetControllerReference(GenerateNodeService(instance, nodeName))
                 r   == CreateOrUpdate("Service", "node-" \o ToString(nodeName), svc,
                                       nodeServices[nodeName], getFails, writeFails)
                 log == calls \o r.log
                 ip  == IF r.get = "ok" THEN r.found.clusterIP ELSE ""
             IN  /\ calls' = log
                 /\ Counted(r.failed)
                 /\ nodeServices' = [nodeServices EXCEPT ![nodeName] = r.stored]
                 /\ IF r.failed
                      THEN /\ Return(FALSE, Err("io", Len(log)))
                           /\ UNCHANGED <<nodeIdx, blockReconciliationOfStatefulSet,
                                          hostNameIpMap>>
                    ELSE /\ pc' = "nodes"
                         /\ nodeIdx' = nodeIdx + 1
                         /\ UNCHANGED result
                         /\ blockReconciliationOfStatefulSet' =
                              BlockAfterNode(blockReconciliationOfStatefulSet,
                                Deref(instance.spec.external).useExternalAddress, ip)
                         /\ hostNameIpMap' =
                              HostNameIpMapAfterNode(hostNameIpMap,
                                Deref(instance.spec.external).useExternalAddress, nodeName, ip)
  /\ UNCHANGED <<useZkCRD, cloud, zkCluster, commonService, headlessService, configMap,
                 statefulSet, ingress, pods, instance, newStatus, err, prev>>
  /\ UNCHANGED defaultsVars

\* Reconcile the headless Service when the cloud uses one.
HeadlessService ==
  /\ pc = "headless"
  /\ IF ~UsesHeadlessService(instance)
       THEN /\ pc' = StepAfter("headless")
            /\ UNCHANGED <<headlessService, calls, result, err, faults>>
     ELSE \E ownerFails, getFails, writeFails \in Faulty :
       IF ownerFails
         THEN /\ Return(FALSE, OwnerErr)
              /\ Counted(TRUE) /\ UNCHANGED <<headlessService, calls, err>>
       ELSE
         LET headless == SetControllerReference(GenerateHeadlessService(instance))
             r   == CreateOrUpdate("Service", "headless", headless, headlessService,
                                   getFails, writeFails)
             log == calls \o r.log
         IN  /\ calls' = log
             /\ Counted(r.failed)
             /\ headlessService' = r.stored
             /\ err' = IF r.failed THEN Err("io", Len(log)) ELSE NoErr
             /\ IF r.failed
                  THEN Return(FALSE, Err("io", Len(log)))
                ELSE pc' = StepAfter("headless") /\ UNCHANGED result
  /\ UNCHANGED <<useZkCRD, cloud, zkCluster, commonService, nodeServices, configMap,
                 statefulSet, ingress, pods, instance, newStatus,
                 blockReconciliationOfStatefulSet, hostNameIpMap, nodeIdx, prev>>
  /\ UNCHANGED defaultsVars

\* Reconcile the ConfigMap.
ConfigMap ==
  /\ pc = "configmap"
  /\ \E ownerFails, getFails, writeFails \in Faulty :
       IF ownerFails
         THEN /\ Return(FALSE, OwnerErr)
              /\ Counted(TRUE) /\ UNCHANGED <<configMap, calls, err>>
       ELSE
         LET cm  == SetControllerReference(GenerateConfigMap(instance))
             r   == CreateOrUpdate("ConfigMap", "configmap", cm, configMap,
                                   getFails, writeFails)
             log == calls \o r.log
         IN  /\ calls' = log
             /\ Counted(r.failed)
             /\ configMap' = r.stored
             /\ err' = IF r.failed THEN Err("io", Len(log)) ELSE NoErr
             /\ IF r.failed
                  THEN Return(FALSE, Err("io", Len(log)))
                ELSE pc' = StepAfter("configmap") /\ UNCHANGED result
  /\ UNCHANGED <<useZkCRD, cloud, zkCluster, commonService, nodeServices, headlessService,
                 statefulSet, ingress, pods, instance, newStatus,
                 blockReconciliationOfStatefulSet, hostNameIpMap, nodeIdx, prev>>
  /\ UNCHANGED defaultsVars

\* A faulty variant of BlockStatefulSet: the connection string is not looked at.
BlockStatefulSetIgnoresZk(block, status) == block

\* The StatefulSet is blocked when a node Service lacked its address or when
\* the Zookeeper connection string has no host:port pair.
BlockStatefulSet(block, status) ==
  block \/ ~Contains(ZkConnectionString(status), ":")

\* A faulty variant of StatusAfterStatefulSet: the counts are never copied.
StatusAfterStatefulSetDropsCounts(status, get, found) == status

\* newStatus after the StatefulSet was looked up: the counts of the found
\* StatefulSet are copied when the Get succeeded, and only then.
StatusAfterStatefulSet(status, get, found) ==
  IF get = "ok"
    THEN [status EXCEPT !.replicas = found.status.replicas,
                        !.readyReplicas = found.status.readyReplicas]
  ELSE status

\* Reconcile the StatefulSet unless it is blocked: by a node Service without
\* an address, or by a Zookeeper connection string without a host:port pair.
StatefulSet ==
  /\ pc = "statefulset"
  /\ LET block == BlockStatefulSet(blockReconciliationOfStatefulSet, newStatus)
     IN  /\ blockReconciliationOfStatefulSet' = block
         /\ IF block
              THEN /\ pc' = StepAfter("statefulset")
                   /\ UNCHANGED <<statefulSet, calls, result, err, newStatus, faults>>
            ELSE \E ownerFails, getFails, writeFails \in Faulty :
              IF ownerFails
                THEN /\ Return(FALSE, OwnerErr)
                     /\ Counted(TRUE) /\ UNCHANGED <<statefulSet, calls, err, newStatus>>
              ELSE
                LET sts == SetControllerReference(
                             GenerateStatefulSet(instance, newStatus, hostNameIpMap))
                    r   == CreateOrUpdate("StatefulSet", "statefulset", sts, statefulSet,
                                          getFails, writeFails)
                    log == calls \o r.log
                IN  /\ calls' = log
                    /\ Counted(r.failed)
                    /\ statefulSet' = r.stored
                    /\ err' = IF r.failed THEN Err("io", Len(log)) ELSE NoErr
                    /\ newStatus' = StatusAfterStatefulSet(newStatus, r.get, r.found)
                    /\ IF r.failed
                         THEN Return(FALSE, Err("io", Len(log)))
                       ELSE pc' = StepAfter("statefulset") /\ UNCHANGED result
  /\ UNCHANGED <<useZkCRD, cloud, zkCluster, commonService, nodeServices, headlessService,
                 configMap, ingress, pods, instance, hostNameIpMap, nodeIdx, prev>>
  /\ UNCHANGED defaultsVars

------------------------------------------------------------------------------
(* reconcileCloudStatus *)

\* util.BackupRestoreVolume
BackupRestoreVolume == "backup-restore"

\* Every order in which the platform may return the pods.
ListOrders(items) ==
  LET n == Len(items)
  IN  { [i \in 1..n |-> items[f[i]]] :
          f \in { g \in [1..n -> 1..n] : \A i, j \in 1..n : i # j => g[i] # g[j] } }

\* A faulty variant of SortStrings: the names stay in the order of the list.
SortStringsKeepsOrder(names) == names

\* sort.Strings on pod names; a name is its rank in lexicographic order.
RECURSIVE Insert(_, _)
Insert(sorted, x) ==
  IF sorted = <<>> THEN <<x>>
  ELSE IF x <= Head(sorted) THEN <<x>> \o sorted
  ELSE <<Head(sorted)>> \o Insert(Tail(sorted), x)

RECURSIVE SortStrings(_)
SortStrings(names) ==
  IF names = <<>> THEN <<>> ELSE Insert(SortStrings(Tail(names)), Head(names))

\* The SolrNodeStatus built for one listed pod.
NodeStatus(solrCloud, p) ==
  LET reported == Len(p.containerStatuses) > 0
      external == solrCloud.spec.external
  IN  [ name            |-> p.name,
        nodeName        |-> p.nodeName,
        internalAddress |-> <<"http://", "internal", p.name>>,
        externalAddress |-> IF external # NIL /\ ~Deref(external).hideNodes
                              THEN <<"http://", "external", p.name>> ELSE <<>>,
        ready           |-> /\ reported
                            /\ \A i \in DOMAIN p.containerStatuses : p.containerStatuses[i],
        version         |-> IF reported THEN p.version ELSE "" ]

\* otherVersions: the versions that differ from the spec's tag, in the order
\* of the listed pods.
RECURSIVE OtherVersions(_, _)
OtherVersions(solrCloud, items) ==
  IF items = <<>> THEN <<>>
  ELSE LET ns == NodeStatus(solrCloud, Head(items))
       IN  (IF Len(Head(items).containerStatuses) > 0 /\ ns.version # solrCloud.spec.tag
              THEN <<ns.version>> ELSE <<>>)
           \o OtherVersions(solrCloud, Tail(items))

\* A faulty variant of BackupRestoreReadyPods: every listed pod counts.
BackupRestoreReadyPodsCountsAll(solrCloud, items) ==
  IF solrCloud.spec.backupRestoreVolume = NIL THEN 0 ELSE Len(items)

\* backupRestoreReadyPods: the listed pods that have the backup volume, counted
\* only when the spec declares a backup-restore volume.
RECURSIVE BackupRestoreReadyPods(_, _)
BackupRestoreReadyPods(solrCloud, items) ==
  IF items = <<>> \/ solrCloud.spec.backupRestoreVolume = NIL THEN 0
  ELSE (IF BackupRestoreVolume \in Head(items).volumes THEN 1 ELSE 0)
       + BackupRestoreReadyPods(solrCloud, Tail(items))

\* nodeStatusMap[name]: the status of the last listed pod of that name.
NodeStatusMap(solrCloud, items, name) ==
  LET last == CHOOSE i \in DOMAIN items :
                /\ items[i].name = name
                /\ \A j \in DOMAIN items : items[j].name = name => j <= i
  IN  NodeStatus(solrCloud, items[last])

\* The status reconcileCloudStatus leaves in newStatus for the listed pods.
ReconcileCloudStatus(solrCloud, status, items) ==
  LET nodeNames     == SortStrings([i \in DOMAIN items |-> items[i].name])
      otherVersions == OtherVersions(solrCloud, items)
      readyPods     == BackupRestoreReadyPods(solrCloud, items)
      external      == solrCloud.spec.external
  IN  [status EXCEPT
         !.solrNodes = [idx \in DOMAIN nodeNames |->
                          NodeStatusMap(solrCloud, items, nodeNames[idx])],
         !.backupRestoreReady =
            IF readyPods = Deref(solrCloud.spec.replicas) /\ readyPods > 0 THEN TRUE ELSE @,
         !.targetVersion = IF Len(otherVersions) > 0 THEN solrCloud.spec.tag ELSE "",
         !.version = IF Len(otherVersions) > 0 THEN otherVersions[1]
                     ELSE solrCloud.spec.tag,
         !.internalCommonAddress = "http://common",
         !.externalCommonAddress =
            IF external # NIL /\ ~Deref(external).hideCommon
              THEN Some("http://common.external") ELSE @]

\* List the pods of the cloud and aggregate their status.
CloudStatus ==
  /\ pc = "status"
  /\ \E fails \in Faulty :
       LET log == Append(calls, Call("List", "Pod", "pods", IF fails THEN "fail" ELSE "ok"))
       IN  /\ calls' = log
           /\ Counted(fails)
           /\ err' = IF fails THEN Err("io", Len(log)) ELSE NoErr
           /\ IF fails
                THEN /\ Return(FALSE, Err("io", Len(log)))
                     /\ UNCHANGED newStatus
              ELSE /\ \E foundPods \in ListOrders(pods) :
                        newStatus' = ReconcileCloudStatus(instance, newStatus, foundPods)
                   /\ pc' = StepAfter("status")
                   /\ UNCHANGED result
  /\ UNCHANGED <<useZkCRD, storeVars, instance, blockReconciliationOfStatefulSet,
                 hostNameIpMap, nodeIdx, prev>>
  /\ UNCHANGED defaultsVars

\* A faulty variant of IngressNotRequested: an Ingress left in the store is
\* deleted.
IngressNotRequestedDeletes ==
  /\ pc' = "persist"
  /\ ingress' = NIL
  /\ calls' = IF ingress = NIL THEN calls
              ELSE Append(calls, Call("Delete", "Ingress", "ingress", "ok"))
  /\ UNCHANGED <<result, err, faults>>

\* The cloud is not addressed through an Ingress: the step does nothing.
IngressNotRequested ==
  /\ pc' = StepAfter("ingress")
  /\ UNCHANGED <<ingress, calls, result, err, faults>>

\* Reconcile the Ingress when the cloud is addressed through one.
Ingress ==
  /\ pc = "ingress"
  /\ LET extAddressabilityOpts == instance.spec.external
     IN  IF ~(extAddressabilityOpts # NIL /\ Deref(extAddressabilityOpts).method = "Ingress")
           THEN IngressNotRequested
         ELSE \E ownerFails, getFails, writeFails \in Faulty :
           IF ownerFails
             THEN /\ Return(FALSE, OwnerErr)
                  /\ Counted(TRUE) /\ UNCHANGED <<ingress, calls, err>>
           ELSE
             LET ing == SetControllerReference(
                          GenerateIngress(instance, GetAllSolrNodeNames(instance)))
                 r   == CreateOrUpdate("Ingress", "ingress", ing, ingress,
                                       getFails, writeFails)
                 log == calls \o r.log
             IN  /\ calls' = log
                 /\ Counted(r.failed)
                 /\ ingress' = r.stored
                 /\ err' = IF r.failed THEN Err("io", Len(log)) ELSE NoErr
                 /\ IF r.failed
                      THEN Return(FALSE, Err("io", Len(log)))
                    ELSE pc' = StepAfter("ingress") /\ UNCHANGED result
  /\ UNCHANGED <<useZkCRD, cloud, zkCluster, commonService, nodeServices, headlessService,
                 configMap, statefulSet, pods, instance, newStatus,
                 blockReconciliationOfStatefulSet, hostNameIpMap, nodeIdx, prev>>
  /\ UNCHANGED defaultsVars

\* A faulty variant of StatusDiffers: the status is written in every pass.
StatusDiffersAlways(stored, computed) == TRUE

\* !reflect.DeepEqual(instance.Status, newStatus)
StatusDiffers(stored, computed) == stored # computed

\* Write the status when it differs from the fetched one, and return.
StatusUpdate ==
  /\ pc = "persist"
  /\ IF StatusDiffers(instance.status, newStatus)
       THEN \E fails \in Faulty :
              LET log == Append(calls, Call("StatusUpdate", "SolrCloud", "cloud",
                                            WriteOutcome(fails)))
              IN  /\ calls' = log
                  /\ Counted(fails)
                  /\ instance' = [instance EXCEPT !.status = newStatus]
                  /\ err' = IF fails THEN Err("io", Len(log)) ELSE NoErr
                  /\ IF fails
                       THEN /\ Return(FALSE, Err("io", Len(log)))
                            /\ UNCHANGED cloud
                     ELSE /\ Return(FALSE, NoErr)
                          /\ cloud' = Some([Deref(cloud) EXCEPT !.status = newStatus])
     ELSE /\ Return(FALSE, NoErr)
          /\ UNCHANGED <<cloud, calls, instance, err, faults>>
  /\ UNCHANGED <<useZkCRD, zkCluster, commonService, nodeServices, headlessService,
                 configMap, statefulSet, ingress, pods, newStatus,
                 blockReconciliationOfStatefulSet, hostNameIpMap, nodeIdx, prev>>
  /\ UNCHANGED defaultsVars

Next ==
  \/ UserCreates
  \/ UserEdits
  \/ PlatformAssignsClusterIP
  \/ ZkOperatorReportsEndpoint
  \/ WorkloadRuns
  \/ Fetch
  \/ Defaults
  \/ ReconcileZk
  \/ CommonService
  \/ NodeService
  \/ HeadlessService
  \/ ConfigMap
  \/ StatefulSet
  \/ CloudStatus
  \/ Ingress
  \/ StatusUpdate

Spec == Init /\ [][Next]_vars

------------------------------------------------------------------------------
(* Properties of a pass, read from its call log *)

Done == pc = "done"

\* The pass fetched the SolrCloud.
Fetched == calls # <<>> /\ calls[1].res = "ok"

\* The pass persisted the defaults of the spec.
Normalizing ==
  \E i \in DOMAIN calls : calls[i].op = "Update" /\ calls[i].kind = "SolrCloud"

\* The finished pass went past the fetch and the defaults.
Proceeded == Done /\ Fetched /\ ~Normalizing

Mutated == \E i \in DOMAIN calls : IsMutating(calls[i])

\* The pass made calls for this object and none of them failed.
StepClean(kind, name) ==
  /\ \E i \in DOMAIN calls : calls[i].kind = kind /\ calls[i].name = name
  /\ \A i \in DOMAIN calls :
       (calls[i].kind = kind /\ calls[i].name = name) => calls[i].res # "fail"

\* The steps of a pass that come before the common Service.
BeforeCommon == {"defaults", "zk", "done"}

\* An error the pass returned is the failure of a store call or of setting an
\* owner reference.
FromFailure(e) ==
  \/ e.type = "owner"
  \/ e.type = "io" /\ e.at \in DOMAIN calls /\ calls[e.at].res = "fail"

Neither(inst) ==
  inst.spec.zkRef.connectionInfo = NIL /\ inst.spec.zkRef.provided = NIL

Both(inst) ==
  inst.spec.zkRef.connectionInfo # NIL /\ inst.spec.zkRef.provided # NIL

ProvidedOnly(inst) ==
  inst.spec.zkRef.connectionInfo = NIL /\ inst.spec.zkRef.provided # NIL

UsesIngress(inst) ==
  inst.spec.external # NIL /\ Deref(inst.spec.external).method = "Ingress"

AdvertisesExternal(inst) ==
  UsesIndividualNodeServices(inst) /\ Deref(inst.spec.external).useExternalAddress

NodeCallName(n) == "node-" \o ToString(n)

NodesOf(inst) == 0..(Deref(inst.spec.replicas) - 1)

\* The pass reconciled the Service of node n and met it without an address:
\* it created the Service, or found it with an empty cluster IP.
EmptyAddress(n) ==
  /\ StepClean("Service", NodeCallName(n))
  /\ Deref(nodeServices[n]).clusterIP = ""

------------------------------------------------------------------------------
(* C1 *)

------------------------------------------------------------------------------
(* C2 *)

\* C2 as stated: a failed store call on a dependent resource (or the pod list)
\* is the last store call of its pass and its error is what the pass returns.
C2_FailedCallEndsPass ==
  Done =>
    \A i \in DOMAIN calls :
      (calls[i].res = "fail" /\ calls[i].kind # "SolrCloud")
        => (i = Len(calls) /\ result.err = Err("io", i))

------------------------------------------------------------------------------
(* C3 *)

\* C3: a pass over a SolrCloud whose Zookeeper reference names neither kind
\* never gets past reconcileZk; it returns the bad-request error having made
\* no store call but the fetch, and leaves newStatus empty.
C3_NoZookeeperReferenceIsBadRequest ==
  (Fetched /\ Neither(instance)) =>
    /\ pc \in BeforeCommon
    /\ Proceeded =>
         /\ result = [requeue |-> FALSE, err |-> BadRequest]
         /\ Len(calls) = 1
         /\ newStatus = StatusZero

C3_Witness ==
  Proceeded /\ Neither(instance) /\ result.err = BadRequest

------------------------------------------------------------------------------
(* C4 *)

\* C4 as stated: a pass over a SolrCloud whose Zookeeper reference names both
\* kinds never gets past reconcileZk and returns the bad-request error,
\* having created or updated nothing.
C4_BothZookeeperReferencesIsBadRequest ==
  (Fetched /\ Both(instance)) =>
    /\ pc \in BeforeCommon
    /\ Proceeded => (result.err = BadRequest /\ ~Mutated)

------------------------------------------------------------------------------
(* C5 *)

\* C5: with the Zookeeper CRD flag off, a pass over a SolrCloud that requests
\* a provided Zookeeper (and gives no connection info) never gets past
\* reconcileZk; it returns the bad-request error having made no call on a
\* ZookeeperCluster and no mutating call.
C5_ProvidedZookeeperWithoutCRDIsBadRequest ==
  (Fetched /\ ProvidedOnly(instance) /\ ~useZkCRD) =>
    /\ pc \in BeforeCommon
    /\ \A i \in DOMAIN calls : calls[i].kind # "ZookeeperCluster"
    /\ zkCluster = NIL
    /\ Proceeded =>
         /\ result = [requeue |-> FALSE, err |-> BadRequest]
         /\ ~Mutated

C5_Witness ==
  Proceeded /\ ProvidedOnly(instance) /\ ~useZkCRD /\ result.err = BadRequest

------------------------------------------------------------------------------
(* C6 *)

\* C6: a finished pass that came to the StatefulSet step with a Zookeeper
\* connection string without ':' made no call on the StatefulSet and went on
\* to list the pods; an error it returned is a failure of a later call; and
\* when it returned no error it reconciled the Ingress (if addressed through
\* one) and left the computed status persisted.
C6_DeferredWorkloadSet ==
  (Proceeded /\ StepClean("ConfigMap", "configmap")
     /\ ~Contains(ZkConnectionString(newStatus), ":")) =>
    /\ \A i \in DOMAIN calls : calls[i].kind # "StatefulSet"
    /\ \E i \in DOMAIN calls : calls[i].op = "List"
    /\ result.err # NoErr => FromFailure(result.err)
    /\ result.err = NoErr =>
         /\ UsesIngress(instance) => StepClean("Ingress", "ingress")
         /\ Deref(cloud).status = newStatus

\* A deferred pass that ran to its end and wrote the status.
C6_Witness ==
  /\ Proceeded /\ StepClean("ConfigMap", "configmap")
  /\ ~Contains(ZkConnectionString(newStatus), ":")
  /\ result.err = NoErr
  /\ \E i \in DOMAIN calls : calls[i].op = "StatusUpdate" /\ calls[i].res = "ok"
  /\ UsesIngress(instance)

------------------------------------------------------------------------------
(* C7 *)

\* C7: a finished pass over a SolrCloud that advertises external addresses
\* and met a node Service without an address made no call on the StatefulSet;
\* an error it returned is a failure of a call; and when it returned no error
\* it reconciled the Service of every node and went on to list the pods.
C7_EmptyNodeAddressDefersWorkloadSet ==
  (Proceeded /\ AdvertisesExternal(instance)
     /\ \E n \in NodesOf(instance) : EmptyAddress(n)) =>
    /\ \A i \in DOMAIN calls : calls[i].kind # "StatefulSet"
    /\ result.err # NoErr => FromFailure(result.err)
    /\ result.err = NoErr =>
         /\ \A n \in NodesOf(instance) : StepClean("Service", NodeCallName(n))
         /\ \E i \in DOMAIN calls : calls[i].op = "List"

\* The first of two node Services has no address, the second has one, the
\* Zookeeper connection string is good, and the pass ran to its end.
C7_Witness ==
  /\ Proceeded /\ AdvertisesExternal(instance)
  /\ Deref(instance.spec.replicas) = 2
  /\ EmptyAddress(0)
  /\ StepClean("Service", NodeCallName(1))
  /\ Deref(nodeServices[1]).clusterIP # ""
  /\ Contains(ZkConnectionString(newStatus), ":")
  /\ result.err = NoErr

------------------------------------------------------------------------------
(* C8 *)

\* C8: a pass goes past the fetch only when it found the SolrCloud; when the
\* SolrCloud is not found the pass returns success without requeue, when the
\* fetch fails it returns that error, and in both cases the fetch is its only
\* store call.
C8_FetchStep ==
  /\ pc \notin {"idle", "done"} => Fetched
  /\ (Done /\ calls[1].res = "notfound") =>
       (result = [requeue |-> FALSE, err |-> NoErr] /\ Len(calls) = 1)
  /\ (Done /\ calls[1].res = "fail") =>
       (result = [requeue |-> FALSE, err |-> Err("io", 1)] /\ Len(calls) = 1)

C8_Witness ==
  Done /\ calls[1].res = "notfound" /\ result = ResultZero

------------------------------------------------------------------------------
(* C9 *)

\* C9: a pass that persists the defaults makes that Update its only call after
\* the fetch; it returns requeue without error when the Update succeeded (the
\* stored spec is then normalized) and the error when it failed.  A pass that
\* is past the defaults step, or made a call on anything but the SolrCloud,
\* works on the stored spec, which default-filling does not change.
C9_NormalizeStep ==
  /\ (Done /\ Normalizing) =>
       /\ Len(calls) = 2
       /\ calls[2].op = "Update" /\ calls[2].kind = "SolrCloud"
       /\ calls[2].res = "ok" =>
            /\ result = [requeue |-> TRUE, err |-> NoErr]
            /\ ~WithDefaults(Deref(cloud).spec)[1]
       /\ calls[2].res = "fail" =>
            /\ result = [requeue |-> FALSE, err |-> Err("io", 2)]
            /\ WithDefaults(Deref(cloud).spec)[1]
  /\ (\/ pc \notin {"idle", "defaults", "done"}
      \/ Proceeded
      \/ \E i \in DOMAIN calls : calls[i].kind # "SolrCloud") =>
       /\ instance.spec = Deref(cloud).spec
       /\ ~WithDefaults(instance.spec)[1]

C9_Witness ==
  /\ Done /\ Normalizing /\ calls[2].res = "ok"
  /\ result = [requeue |-> TRUE, err |-> NoErr]

------------------------------------------------------------------------------
(* C10 *)

\* C10 as stated: the status step writes the status exactly when the computed
\* status differs from the fetched one and no earlier call of the pass failed;
\* the status is written nowhere else; and every pass starts newStatus empty.
C10_StatusWrittenIffChangedAndClean ==
  [][ /\ pc = "persist" =>
           ((Len(calls') > Len(calls))
              <=> (instance.status # newStatus /\ ~AnyFailed(calls)))
      /\ pc # "persist" =>
           (\A i \in DOMAIN calls' : calls'[i].op # "StatusUpdate")
      /\ pc' = "defaults" => newStatus' = StatusZero ]_vars

------------------------------------------------------------------------------
(* reconcileCloudStatus over arbitrary pods *)

\* The largest number of pods the list call returns.
MaxPods == 3

\* The image tag of the spec, one older and one newer version.
StatusTag == "v2"

PodVersions == {"v1", StatusTag, "v3"}

\* The pods the selector of reconcileCloudStatus can match: the pod of rank i
\* in name order is named i; it has the backup volume or not, and either has
\* reported its container, running any version, or has not (its image is then
\* not looked at).  Volume names are unique within a pod, so the volumes of a
\* pod are a set.
ListedPod(i) ==
  { [name |-> i, nodeName |-> "worker", containerStatuses |-> <<TRUE>>,
     version |-> v, volumes |-> vol] :
      v \in PodVersions, vol \in {{}, {BackupRestoreVolume}} }
  \cup
  { [name |-> i, nodeName |-> "worker", containerStatuses |-> <<>>,
     version |-> StatusTag, volumes |-> vol] :
      vol \in {{}, {BackupRestoreVolume}} }

ListedPods ==
  UNION { { [i \in 1..n |-> [f[i] EXCEPT !.name = i - 1]] :
              f \in [1..n -> ListedPod(0)] } : n \in 0..MaxPods }

\* The normalized SolrClouds whose status is aggregated: any replica count,
\* with or without a backup-restore volume.
StatusClouds ==
  { [spec |-> [replicas |-> Some(n), tag |-> StatusTag,
               zkRef |-> [connectionInfo |-> Some(ci), provided |-> NIL],
               external |-> NIL, backupRestoreVolume |-> bv, rev |-> "plain"],
     status |-> StatusZero] :
      n \in 0..MaxPods, bv \in {NIL, Some("volume")},
      ci \in { c \in UserConnectionInfos : Contains(c.internal, ":") } }

\* Reconcile is about to call reconcileCloudStatus (line 505): newStatus holds
\* the connection info, the store holds any pods.
StatusInit ==
  /\ useZkCRD = FALSE
  /\ cloud \in { Some(c) : c \in StatusClouds }
  /\ zkCluster = NIL
  /\ commonService = NIL
  /\ nodeServices = [i \in 0..(MaxNodes - 1) |-> NIL]
  /\ headlessService = NIL
  /\ configMap = NIL
  /\ statefulSet = NIL
  /\ ingress = NIL
  /\ pods \in ListedPods
  /\ pc = "status"
  /\ instance = Deref(cloud)
  /\ newStatus = [StatusZero EXCEPT !.zk = Deref(instance.spec.zkRef.connectionInfo)]
  /\ blockReconciliationOfStatefulSet = FALSE
  /\ hostNameIpMap = {}
  /\ nodeIdx = 0
  /\ err = NoErr
  /\ result = ResultZero
  /\ calls = <<Call("Get", "SolrCloud", "cloud", "ok")>>
  /\ faults = 0
  /\ prev = PrevZero
  /\ spe = NIL
  /\ defaultsChanged = FALSE
  /\ applied = 0
  /\ generated = NIL
  /\ staleReads = FALSE

StatusNext == CloudStatus

StatusSpec == StatusInit /\ [][StatusNext]_vars

\* reconcileCloudStatus has returned without error.
Aggregated == pc = "ingress"

\* The listed pods that report a container running another version than the
\* spec's tag.
Divergent ==
  { i \in DOMAIN pods :
      Len(pods[i].containerStatuses) > 0 /\ pods[i].version # instance.spec.tag }

\* The listed pods that have the backup volume.
MountingBackup == { i \in DOMAIN pods : BackupRestoreVolume \in pods[i].volumes }

------------------------------------------------------------------------------
(* C11 *)

\* C11 as stated: when some listed pod runs a version other than the spec's
\* tag, the aggregated status has TargetVersion = the tag and Version = the
\* version of the divergent pod that is first in name order, whatever the
\* order of the list.
C11_VersionOfFirstDivergentPodByName ==
  (Aggregated /\ Divergent # {}) =>
    /\ newStatus.targetVersion = instance.spec.tag
    /\ newStatus.version =
         pods[CHOOSE i \in Divergent : \A j \in Divergent : i <= j].version

------------------------------------------------------------------------------
(* C12 *)

\* C12 as stated: after status aggregation BackupRestoreReady is true exactly
\* when the number of listed pods that have the backup volume equals the
\* replica count and is not zero.
C12_BackupReadyIffAllMount ==
  Aggregated =>
    (newStatus.backupRestoreReady
       <=> /\ Cardinality(MountingBackup) = Deref(instance.spec.replicas)
           /\ Cardinality(MountingBackup) > 0)

\* C12, amended: after status aggregation BackupRestoreReady is true exactly
\* when the spec declares a backup-restore volume and the number of listed
\* pods that have the backup volume equals the replica count and is not zero.
C12_BackupReadyIffDeclaredAndAllMount ==
  Aggregated =>
    (newStatus.backupRestoreReady
       <=> /\ instance.spec.backupRestoreVolume # NIL
           /\ Cardinality(MountingBackup) = Deref(instance.spec.replicas)
           /\ Cardinality(MountingBackup) > 0)

\* Three of three pods have the backup volume and the status says ready.
C12_Witness ==
  /\ Aggregated
  /\ instance.spec.backupRestoreVolume # NIL
  /\ Deref(instance.spec.replicas) = 3
  /\ Cardinality(MountingBackup) = 3
  /\ newStatus.backupRestoreReady

------------------------------------------------------------------------------
(* C13 *)

\* The dependent resources in the store.
Dependents ==
  {zkCluster, commonService, headlessService, configMap, statefulSet, ingress}
    \cup { nodeServices[n] : n \in DOMAIN nodeServices }

\* Every dependent resource in the store has the SolrCloud as its owner.
AllOwned == \A d \in Dependents : d # NIL => Deref(d).owner = "solrcloud"

\* A step in which setting the owner reference fails ends the pass with that
\* error and makes no store call.
OwnerFailureAborts ==
  (pc # "done" /\ pc' = "done" /\ result'.err = OwnerErr)
    => (calls' = calls /\ storeVars' = storeVars)

\* A pass returns the owner error only from such a step.
OwnerErrorOnlyFromFailure ==
  (result'.err = OwnerErr) => (pc' = "done" /\ (pc = "done" => UNCHANGED vars))

\* C13: every dependent resource the loop has created carries the SolrCloud
\* as controller owner from its Create on, and a failure to set the owner
\* ends the pass before any Get or Create of that resource.
C13_DependentsAreOwned ==
  []AllOwned /\ [][OwnerFailureAborts /\ OwnerErrorOnlyFromFailure]_vars

\* A pass that found its StatefulSet and then failed to set an owner.
C13_Witness ==
  /\ Done /\ result.err = OwnerErr
  /\ statefulSet # NIL /\ commonService # NIL /\ configMap # NIL
  /\ \E i \in DOMAIN calls : calls[i].kind = "StatefulSet"

------------------------------------------------------------------------------
(* Passes across changes of the shape of the cloud *)

\* A user changes the replica count or the external addressability of the
\* SolrCloud: switches to or away from the Ingress method (and so between
\* per-node Services and the headless Service), raises or lowers the count.
UserReshapes ==
  /\ Between
  /\ cloud # NIL
  /\ \E s \in UserSpecs :
       LET old == Deref(cloud).spec
           new == [s EXCEPT !.rev = old.rev]
       IN  /\ new.zkRef = old.zkRef
           /\ new # old
           /\ WithDefaults(new)[2] # WithDefaults(old)[2]
           /\ cloud' = Some([Deref(cloud) EXCEPT !.spec = new])
  /\ Forget
  /\ UNCHANGED <<useZkCRD, zkCluster, commonService, nodeServices, headlessService,
                 configMap, statefulSet, ingress, pods>>
  /\ UNCHANGED defaultsVars

\* The empty store, with no store call failing from here on.
EditInit ==
  /\ useZkCRD \in BOOLEAN
  /\ cloud = NIL
  /\ zkCluster = NIL
  /\ commonService = NIL
  /\ nodeServices = [i \in 0..(MaxNodes - 1) |-> NIL]
  /\ headlessService = NIL
  /\ configMap = NIL
  /\ statefulSet = NIL
  /\ ingress = NIL
  /\ pods = <<>>
  /\ pc = "idle"
  /\ instance = InstanceZero
  /\ newStatus = StatusZero
  /\ blockReconciliationOfStatefulSet = FALSE
  /\ hostNameIpMap = {}
  /\ nodeIdx = 0
  /\ err = NoErr
  /\ result = ResultZero
  /\ calls = <<>>
  /\ faults = MaxFaults
  /\ prev = PrevZero
  /\ spe = NIL
  /\ defaultsChanged = FALSE
  /\ applied = 0
  /\ generated = NIL
  /\ staleReads = FALSE

\* The passes of Reconcile, with the user creating and reshaping the cloud and
\* the platform assigning addresses in between.
EditNext ==
  \/ UserCreates
  \/ UserReshapes
  \/ PlatformAssignsClusterIP
  \/ Fetch
  \/ Defaults
  \/ ReconcileZk
  \/ CommonService
  \/ NodeService
  \/ HeadlessService
  \/ ConfigMap
  \/ StatefulSet
  \/ CloudStatus
  \/ Ingress
  \/ StatusUpdate

EditSpec == EditInit /\ [][EditNext]_vars

------------------------------------------------------------------------------
(* C14 *)

\* The store calls Reconcile makes.
ReconcileOps == {"Get", "List", "Create", "Update", "StatusUpdate"}

OnlyReconcileOps == \A i \in DOMAIN calls : calls[i].op \in ReconcileOps

\* No step takes a dependent resource out of the store.
NothingDeleted ==
  /\ zkCluster # NIL => zkCluster' # NIL
  /\ commonService # NIL => commonService' # NIL
  /\ headlessService # NIL => headlessService' # NIL
  /\ configMap # NIL => configMap' # NIL
  /\ statefulSet # NIL => statefulSet' # NIL
  /\ ingress # NIL => ingress' # NIL
  /\ \A n \in DOMAIN nodeServices : nodeServices[n] # NIL => nodeServices'[n] # NIL

\* C14: across passes and changes of the spec (switching away from the
\* Ingress method, giving up per-node Services, lowering the replica count)
\* Reconcile makes only Get, List, Create, Update and status Update calls, and
\* a dependent resource once in the store stays in the store.
C14_NoDirectDeletion == []OnlyReconcileOps /\ [][NothingDeleted]_vars

\* A clean pass over a cloud that no longer uses the Ingress method, with the
\* Ingress and the per-node Services of the earlier shape still in the store
\* next to the headless Service of the new one.
C14_Witness ==
  /\ Proceeded /\ result.err = NoErr
  /\ ~UsesIngress(instance)
  /\ ingress # NIL
  /\ \A n \in DOMAIN nodeServices : nodeServices[n] # NIL
  /\ headlessService # NIL

------------------------------------------------------------------------------
(* WithDefaults of the SolrPrometheusExporter and of the SolrCloud *)

\* How many times in a row WithDefaults is applied.
MaxApplications == 2

\* The largest thread count a user asks for.
MaxNumThreads == 2

\* "Defaults to 1" (NumThreads) and "Defaults to 60 seconds" (ScrapeInterval).
DefaultNumThreads == 1

DefaultScrapeInterval == 60

DefaultSolrRepo == "library/solr"

\* ContainerImage.withDefaults(repo, version, policy): fills the unset
\* repository and tag.
ContainerImageWithDefaults(c) ==
  LET filled == [c EXCEPT
                   !.repository = IF @ = "" THEN DefaultSolrRepo ELSE @,
                   !.tag        = IF @ = "" THEN DefaultSolrVersion ELSE @]
  IN  <<filled # c, filled>>

\* ZookeeperConnectionInfo.withDefaults: fills the unset chroot.
ZookeeperConnectionInfoWithDefaults(ci) ==
  LET filled == [ci EXCEPT !.chroot = IF @ = "" THEN "/" ELSE @]
  IN  <<filled # ci, filled>>

\* A faulty variant of SolrCloudReferenceWithDefaults: a named reference is
\* given the namespace, and reported changed, whatever namespace it has.
SolrCloudReferenceWithDefaultsOverwrites(scr, namespace) ==
  <<scr.name # "", IF scr.name # "" THEN [scr EXCEPT !.namespace = namespace] ELSE scr>>

\* SolrCloudReference.withDefaults(namespace)
SolrCloudReferenceWithDefaults(scr, namespace) ==
  LET named  == scr.name # "" /\ scr.namespace = ""
      scr1   == IF named THEN [scr EXCEPT !.namespace = namespace] ELSE scr
      zk     == IF scr1.zkConnectionInfo # NIL
                  THEN ZookeeperConnectionInfoWithDefaults(Deref(scr1.zkConnectionInfo))
                  ELSE <<FALSE, <<>>>>
      scr2   == IF scr1.zkConnectionInfo # NIL
                  THEN [scr1 EXCEPT !.zkConnectionInfo = Some(zk[2])] ELSE scr1
  IN  <<zk[1] \/ named, scr2>>

\* SolrReference.withDefaults(namespace)
SolrReferenceWithDefaults(sr, namespace) ==
  IF sr.cloud # NIL
    THEN LET c == SolrCloudReferenceWithDefaults(Deref(sr.cloud), namespace)
         IN  <<c[1], [sr EXCEPT !.cloud = Some(c[2])]>>
    ELSE <<FALSE, sr>>

\* SolrPrometheusExporterSpec.withDefaults(namespace)
SolrPrometheusExporterSpecWithDefaults(ps, namespace) ==
  LET sr    == SolrReferenceWithDefaults(ps.solrReference, namespace)
      image == ContainerImageWithDefaults(
                 IF ps.image = NIL THEN [repository |-> "", tag |-> ""]
                 ELSE Deref(ps.image))
      unset == ps.numThreads = 0
  IN  << sr[1] \/ image[1] \/ unset,
         [ps EXCEPT !.solrReference = sr[2],
                    !.image = Some(image[2]),
                    !.numThreads = IF unset THEN DefaultNumThreads ELSE @] >>

\* SolrPrometheusExporter.WithDefaults
SolrPrometheusExporterWithDefaults(e) ==
  LET ps == SolrPrometheusExporterSpecWithDefaults(e.spec, e.namespace)
  IN  <<ps[1], [e EXCEPT !.spec = ps[2]]>>

\* The cloud references a user gives.
UserCloudReferences ==
  { [name |-> n, namespace |-> ns, zkConnectionInfo |-> zk] :
      n \in {"", "cloud"}, ns \in {"", "other"},
      zk \in {NIL, Some([chroot |-> ""]), Some([chroot |-> "/solr"])} }

\* The exporters a user submits, in a namespace (a stored object has one).
UserExporters ==
  { [ namespace |-> "ns",
      spec |-> [ solrReference  |-> [cloud |-> c, standalone |-> sa],
                 image          |-> img,
                 numThreads     |-> nt,
                 scrapeInterval |-> si ] ] :
      c \in {NIL} \cup { Some(r) : r \in UserCloudReferences },
      sa \in {NIL, Some("http://solr")},
      img \in {NIL} \cup { Some([repository |-> r, tag |-> t]) :
                             r \in {"", "custom/solr"}, t \in {"", "7.7.0"} },
      nt \in 0..MaxNumThreads,
      si \in {0, DefaultScrapeInterval} }

\* An exporter, or a SolrCloud, as its user submitted it.
DefaultsInit ==
  /\ useZkCRD = FALSE
  /\ \/ spe \in { Some(e) : e \in UserExporters } /\ cloud = NIL
     \/ spe = NIL /\ cloud \in { Some([spec |-> s, status |-> StatusZero]) : s \in UserSpecs }
  /\ zkCluster = NIL
  /\ commonService = NIL
  /\ nodeServices = [i \in 0..(MaxNodes - 1) |-> NIL]
  /\ headlessService = NIL
  /\ configMap = NIL
  /\ statefulSet = NIL
  /\ ingress = NIL
  /\ pods = <<>>
  /\ pc = "idle"
  /\ instance = InstanceZero
  /\ newStatus = StatusZero
  /\ blockReconciliationOfStatefulSet = FALSE
  /\ hostNameIpMap = {}
  /\ nodeIdx = 0
  /\ err = NoErr
  /\ result = ResultZero
  /\ calls = <<>>
  /\ faults = 0
  /\ prev = PrevZero
  /\ defaultsChanged = FALSE
  /\ applied = 0
  /\ generated = NIL
  /\ staleReads = FALSE

\* changed := spe.WithDefaults()
ExporterDefaults ==
  /\ spe # NIL
  /\ applied < MaxApplications
  /\ LET r == SolrPrometheusExporterWithDefaults(Deref(spe))
     IN  /\ defaultsChanged' = r[1]
         /\ spe' = Some(r[2])
  /\ applied' = applied + 1
  /\ UNCHANGED <<useZkCRD, storeVars, pc, localVars, result, calls, faults, prev,
                 generated, staleReads>>

\* changed := instance.WithDefaults(IngressBaseUrl)
SolrCloudDefaults ==
  /\ cloud # NIL
  /\ applied < MaxApplications
  /\ LET r == WithDefaults(Deref(cloud).spec)
     IN  /\ defaultsChanged' = r[1]
         /\ cloud' = Some([Deref(cloud) EXCEPT !.spec = r[2]])
  /\ applied' = applied + 1
  /\ UNCHANGED <<useZkCRD, zkCluster, commonService, nodeServices, headlessService,
                 configMap, statefulSet, ingress, pods, pc, localVars, result, calls,
                 faults, prev, spe, generated, staleReads>>

DefaultsNext == ExporterDefaults \/ SolrCloudDefaults

DefaultsSpec == DefaultsInit /\ [][DefaultsNext]_vars

------------------------------------------------------------------------------
(* C15 *)

\* C15 as stated: one application of WithDefaults to an exporter leaves the
\* image set and filled, and gives every unset field its documented default:
\* NumThreads 1, ScrapeInterval 60, and the exporter's namespace for a named
\* cloud reference without one.
C15_ExporterDefaultsComplete ==
  [][ (spe # NIL /\ applied = 0 /\ applied' = 1) =>
        LET old == Deref(spe).spec
            new == Deref(spe').spec
        IN  /\ new.image # NIL
            /\ Deref(new.image).repository # "" /\ Deref(new.image).tag # ""
            /\ old.numThreads = 0 => new.numThreads = DefaultNumThreads
            /\ old.scrapeInterval = 0 => new.scrapeInterval = DefaultScrapeInterval
            /\ (old.solrReference.cloud # NIL
                  /\ Deref(old.solrReference.cloud).name # ""
                  /\ Deref(old.solrReference.cloud).namespace = "")
                 => Deref(new.solrReference.cloud).namespace = Deref(spe).namespace ]_vars

------------------------------------------------------------------------------
(* C16 *)

\* C16: an application of WithDefaults that follows another one returns
\* changed = false and modifies no field, for the exporter and for the
\* SolrCloud alike.
C16_SecondWithDefaultsChangesNothing ==
  [][ (applied >= 1 /\ applied' = applied + 1) =>
        (~defaultsChanged' /\ spe' = spe /\ cloud' = cloud) ]_vars

\* WithDefaults was applied twice to an exporter that lacked every default;
\* the first application had changes to report.
C16_Witness ==
  /\ applied = 2 /\ spe # NIL /\ ~defaultsChanged
  /\ Deref(spe).spec.numThreads = DefaultNumThreads
  /\ Deref(spe).spec.solrReference.cloud # NIL
  /\ Deref(Deref(spe).spec.solrReference.cloud).namespace = Deref(spe).namespace

------------------------------------------------------------------------------
(* C17 *)

\* reconcileZk has returned without error for a provided Zookeeper.
ProvidedZkReconciled ==
  /\ Fetched /\ ProvidedOnly(instance) /\ useZkCRD
  /\ StepClean("ZookeeperCluster", "zk")

\* One ordinal-indexed host:port entry per replica, comma-joined.
OnePerReplica(n) ==
  Join([i \in 1..n |-> <<"zk-", ToString(i - 1), ".zk-headless.ns", ":", ZkClientPort>>],
       ",")

\* C17 as stated: in every pass in which reconcileZk returns without error for
\* a provided Zookeeper, the pass that creates the ZookeeperCluster included,
\* the internal connection string in newStatus has one ordinal-indexed
\* host:port entry for each declared replica.
C17_ProvidedZkConnectionString ==
  ProvidedZkReconciled =>
    newStatus.zk.internal = OnePerReplica(Deref(instance.spec.zkRef.provided).replicas)

------------------------------------------------------------------------------
(* C18 *)

\* The dispatch layer invokes Reconcile again on its own, without a change in
\* the store, when the pass asked for a requeue or returned an error.
RetriedByCaller(res) == res.requeue \/ res.err # NoErr

\* C18 as stated: a pass that ends with a configuration error (the bad
\* request of reconcileZk) returns an outcome the caller does not retry,
\* while a pass that ends with a failed store call returns one it retries.
C18_ConfigurationErrorIsTerminal ==
  Done =>
    /\ result.err = BadRequest => ~RetriedByCaller(result)
    /\ result.err.type = "io" => RetriedByCaller(result)

------------------------------------------------------------------------------
(* Passes over Services that have their addresses *)

\* A normalized SolrCloud, after an edit of its customisation, whose Services
\* were all created under the customisation before, with the addresses the
\* platform has given them since.
MergeClouds ==
  { [spec |-> [replicas |-> Some(n), tag |-> DefaultSolrVersion,
               zkRef |-> [connectionInfo |-> Some(ci), provided |-> NIL],
               external |-> ext, backupRestoreVolume |-> NIL, rev |-> rev],
     status |-> StatusZero] :
      n \in 1..MaxNodes, rev \in Customisations,
      ci \in UserConnectionInfos,
      ext \in {NIL} \cup { Some(e) : e \in UserExternalOptions } }

\* The SolrCloud as it was when the Services were created.
Before(c) == [c EXCEPT !.spec.rev = "plain"]

MergeInit ==
  /\ useZkCRD = FALSE
  /\ cloud \in { Some(c) : c \in MergeClouds }
  /\ zkCluster = NIL
  /\ commonService =
       Some([SetControllerReference(GenerateCommonService(Before(Deref(cloud))))
               EXCEPT !.clusterIP = "10.0.0.2"])
  /\ nodeServices =
       [n \in 0..(MaxNodes - 1) |->
          Some([SetControllerReference(GenerateNodeService(Before(Deref(cloud)), n))
                  EXCEPT !.clusterIP = "10.0.0.1"])]
  /\ headlessService =
       Some([SetControllerReference(GenerateHeadlessService(Before(Deref(cloud))))
               EXCEPT !.clusterIP = "None"])
  /\ configMap = NIL
  /\ statefulSet = NIL
  /\ ingress = NIL
  /\ pods = <<>>
  /\ pc = "idle"
  /\ instance = InstanceZero
  /\ newStatus = StatusZero
  /\ blockReconciliationOfStatefulSet = FALSE
  /\ hostNameIpMap = {}
  /\ nodeIdx = 0
  /\ err = NoErr
  /\ result = ResultZero
  /\ calls = <<>>
  /\ faults = 0
  /\ prev = PrevZero
  /\ spe = NIL
  /\ defaultsChanged = FALSE
  /\ applied = 0
  /\ generated = NIL
  /\ staleReads = FALSE

\* The passes of Reconcile, with no change in the store in between.
MergeNext ==
  \/ Fetch
  \/ Defaults
  \/ ReconcileZk
  \/ CommonService
  \/ NodeService
  \/ HeadlessService
  \/ ConfigMap
  \/ StatefulSet
  \/ CloudStatus
  \/ Ingress
  \/ StatusUpdate

MergeSpec == MergeInit /\ [][MergeNext]_vars

------------------------------------------------------------------------------
(* C19 *)

\* A step of a pass leaves a Service that is in the store there, with the
\* address and every other field it had; only the fields the operator owns
\* may change, and then to those generated from the fetched SolrCloud.
Merged(svc, after) ==
  svc # NIL =>
    /\ after # NIL
    /\ Deref(after).clusterIP = Deref(svc).clusterIP
    /\ Deref(after) = [Deref(svc) EXCEPT !.fields = Deref(after).fields]
    /\ after # svc => Deref(after).fields.rev = instance.spec.rev

\* C19: whenever a pass updates an existing Service (common, per-node or
\* headless), what it writes is the live object with the generated fields
\* merged in, so the cluster-internal address of the Service is the same
\* after the Update as before.
C19_MergePreservesServerFields ==
  [][ pc' # "idle" =>
        /\ Merged(commonService, commonService')
        /\ Merged(headlessService, headlessService')
        /\ \A n \in DOMAIN nodeServices : Merged(nodeServices[n], nodeServices'[n]) ]_vars

\* A pass has updated the common Service and a per-node Service, and both
\* have their addresses.
C19_Witness ==
  /\ \E i \in DOMAIN calls :
       calls[i] = Call("Update", "Service", "common", "ok")
  /\ \E i \in DOMAIN calls :
       calls[i] = Call("Update", "Service", NodeCallName(0), "ok")
  /\ Deref(commonService).clusterIP = "10.0.0.2"
  /\ Deref(commonService).fields.rev = "labelled"
  /\ Deref(nodeServices[0]).clusterIP = "10.0.0.1"
  /\ Deref(nodeServices[0]).fields.rev = "labelled"

------------------------------------------------------------------------------
(* C20 *)

\* The place of a store call in the order of the steps of a pass.
Rank(call) ==
  CASE call.op = "StatusUpdate"        -> 11
    [] call.kind = "Ingress"           -> 10
    [] call.kind = "Pod"               -> 9
    [] call.kind = "StatefulSet"       -> 8
    [] call.kind = "ConfigMap"         -> 7
    [] call.kind = "Service" /\ call.name = "headless" -> 6
    [] call.kind = "Service" /\ call.name = "common"   -> 4
    [] call.kind = "Service"           -> 5
    [] call.kind = "ZookeeperCluster"  -> 3
    [] call.kind = "SolrCloud" /\ call.op = "Update"   -> 2
    [] OTHER                           -> 1

\* The calls of the pass come in the order of the steps.
InStepOrder ==
  \A i \in 1..(Len(calls) - 1) : Rank(calls[i]) <= Rank(calls[i + 1])

CalledBefore(i, kind, name) ==
  \E j \in 1..(i - 1) : calls[j].kind = kind /\ calls[j].name = name

\* What a call on the StatefulSet finds done in its pass: the Zookeeper
\* reference resolved (adopted into the new status, or the ZookeeperCluster
\* reconciled), the per-node Services or the headless Service reconciled,
\* whichever the SolrCloud has, and the ConfigMap reconciled.
WorkloadComesLast ==
  \A i \in DOMAIN calls :
    calls[i].kind = "StatefulSet" =>
      /\ CalledBefore(i, "SolrCloud", "cloud")
      /\ CalledBefore(i, "Service", "common")
      /\ CalledBefore(i, "ConfigMap", "configmap")
      /\ IF ProvidedOnly(instance)
           THEN CalledBefore(i, "ZookeeperCluster", "zk")
         ELSE newStatus.zk = Deref(instance.spec.zkRef.connectionInfo)
      /\ UsesIndividualNodeServices(instance) =>
           \A n \in NodesOf(instance) : CalledBefore(i, "Service", NodeCallName(n))
      /\ UsesHeadlessService(instance) => CalledBefore(i, "Service", "headless")

\* The fetch is the first call of a pass and the status write its last.
FetchFirstStatusLast ==
  \A i \in DOMAIN calls :
    /\ calls[i].op = "Get" /\ calls[i].kind = "SolrCloud" <=> i = 1
    /\ calls[i].op = "StatusUpdate" => i = Len(calls) /\ pc \in {"done", "idle"}

\* C20: the store calls of a finished pass have occurred in the order fetch,
\* defaults, Zookeeper, common Service, per-node Services, headless Service, ConfigMap,
\* StatefulSet, pod list, Ingress, status write; no call on the StatefulSet
\* came before the Zookeeper reference, every per-node Service and the
\* ConfigMap were reconciled in the same pass, and the status write is the
\* last call of the pass.
C20_StepsInOrder ==
  Done => InStepOrder /\ WorkloadComesLast /\ FetchFirstStatusLast

\* A finished pass that went through every step: a provided Zookeeper, two
\* per-node Services, the StatefulSet, the Ingress and the status write.
C20_Witness ==
  /\ Done
  /\ UsesIndividualNodeServices(instance)
  /\ Deref(instance.spec.replicas) >= 2
  /\ \A k \in {"ZookeeperCluster", "ConfigMap", "StatefulSet", "Pod", "Ingress"} :
       \E i \in DOMAIN calls : calls[i].kind = k
  /\ \E i \in DOMAIN calls : calls[i].name = NodeCallName(1)
  /\ calls[Len(calls)] = Call("StatusUpdate", "SolrCloud", "cloud", "ok")

------------------------------------------------------------------------------
(* Passes repeated with no change from outside *)

\* The versions the pods of a running cloud report: the tag of the spec, one
\* older and one newer version (a rolling update that was overtaken by the
\* next one leaves pods of both).
RunningVersions == {"8.1.0", DefaultSolrVersion, "8.3.0"}

\* The pods of a running cloud of DefaultSolrReplicas nodes, in name order.
RunningPods ==
  { [i \in 1..DefaultSolrReplicas |->
       [name |-> i - 1, nodeName |-> "worker", containerStatuses |-> <<TRUE>>,
        version |-> f[i], volumes |-> {}]] :
      f \in [1..DefaultSolrReplicas -> RunningVersions] }

\* The specs a user submits that name exactly one kind of Zookeeper.
ValidUserSpecs ==
  { spec \in UserSpecs :
      (spec.zkRef.connectionInfo = NIL) # (spec.zkRef.provided = NIL) }

\* A running cloud: normalized, with a reachable Zookeeper.
RunningSpec ==
  [replicas |-> Some(DefaultSolrReplicas), tag |-> DefaultSolrVersion,
   zkRef |-> [connectionInfo |->
                Some([internal |-> <<"zk.example", ":", "2181">>, external |-> NIL,
                      chroot |-> <<"/solr">>]),
              provided |-> NIL],
   external |-> NIL, backupRestoreVolume |-> NIL, rev |-> "plain"]

\* The StatefulSet of the running cloud as an earlier pass created it, with
\* the counts its controller reports.
RunningStatefulSet ==
  LET inst   == [spec |-> RunningSpec, status |-> StatusZero]
      status == [StatusZero EXCEPT !.zk = Deref(RunningSpec.zkRef.connectionInfo)]
  IN  [SetControllerReference(GenerateStatefulSet(inst, status, {}))
         EXCEPT !.status = [replicas |-> DefaultSolrReplicas,
                            readyReplicas |-> DefaultSolrReplicas]]

\* Either a SolrCloud a user has just created, nothing of it in the store
\* yet, or a running cloud with its StatefulSet and pods.  No store call fails.
RepeatInit ==
  /\ useZkCRD = TRUE
  /\ \/ /\ cloud \in { Some([spec |-> spec, status |-> StatusZero]) :
                         spec \in ValidUserSpecs }
        /\ statefulSet = NIL
        /\ pods = <<>>
     \/ /\ cloud = Some([spec |-> RunningSpec, status |-> StatusZero])
        /\ statefulSet = Some(RunningStatefulSet)
        /\ pods \in RunningPods
  /\ zkCluster = NIL
  /\ commonService = NIL
  /\ nodeServices = [i \in 0..(MaxNodes - 1) |-> NIL]
  /\ headlessService = NIL
  /\ configMap = NIL
  /\ ingress = NIL
  /\ pc = "idle"
  /\ instance = InstanceZero
  /\ newStatus = StatusZero
  /\ blockReconciliationOfStatefulSet = FALSE
  /\ hostNameIpMap = {}
  /\ nodeIdx = 0
  /\ err = NoErr
  /\ result = ResultZero
  /\ calls = <<>>
  /\ faults = MaxFaults
  /\ prev = PrevZero
  /\ spe = NIL
  /\ defaultsChanged = FALSE
  /\ applied = 0
  /\ generated = NIL
  /\ staleReads = FALSE

\* The steps of the passes; nothing else acts on the store.
RepeatNext ==
  \/ Fetch
  \/ Defaults
  \/ ReconcileZk
  \/ CommonService
  \/ NodeService
  \/ HeadlessService
  \/ ConfigMap
  \/ StatefulSet
  \/ CloudStatus
  \/ Ingress
  \/ StatusUpdate

\* The dispatcher invokes Reconcile again and again, and every pass runs to
\* its end.
RepeatSpec == RepeatInit /\ [][RepeatNext]_vars /\ WF_vars(RepeatNext)

------------------------------------------------------------------------------
(* C21 *)

\* C21 as stated: when Reconcile is invoked again and again with no change
\* from outside and no failing call, from some pass on every pass issues no
\* mutating call and returns neither a requeue nor an error.
C21_FixedPoint ==
  <>[](Done => ~Mutated /\ result = ResultZero)

------------------------------------------------------------------------------
(* Passes as the dispatcher triggers them *)

\* The pass made a change in the store: every object Reconcile writes is the
\* SolrCloud or a resource the controller owns, and both are watched.
ChangedStore ==
  \E i \in DOMAIN calls : IsMutating(calls[i]) /\ calls[i].res = "ok"

\* The dispatcher has a reason to invoke Reconcile: a change in the store made
\* from outside since the last pass (the SolrCloud or a resource it owns),
\* a change the last pass made itself, or a pass that asked for a requeue or
\* returned an error.
Triggered ==
  \/ pc = "idle"
  \/ pc = "done" /\ (ChangedStore \/ RetriedByCaller(result))

\* The dispatcher invokes Reconcile.
TriggeredFetch == Triggered /\ Fetch

\* One step of a pass the dispatcher has started.
TriggeredPass ==
  \/ TriggeredFetch
  \/ Defaults
  \/ ReconcileZk
  \/ CommonService
  \/ NodeService
  \/ HeadlessService
  \/ ConfigMap
  \/ StatefulSet
  \/ CloudStatus
  \/ Ingress
  \/ StatusUpdate

ConvergeInit == Init /\ useZkCRD = TRUE

ConvergeNext ==
  \/ UserCreates
  \/ PlatformAssignsClusterIP
  \/ TriggeredFetch
  \/ Defaults
  \/ ReconcileZk
  \/ CommonService
  \/ NodeService
  \/ HeadlessService
  \/ ConfigMap
  \/ StatefulSet
  \/ CloudStatus
  \/ Ingress
  \/ StatusUpdate

\* A triggered pass is started and runs to its end; calls fail MaxFaults times
\* at most.
ConvergeSpec == ConvergeInit /\ [][ConvergeNext]_vars /\ WF_vars(TriggeredPass)

------------------------------------------------------------------------------
(* C22 *)

\* The finished pass went past the StatefulSet step without reconciling the
\* StatefulSet.
Deferred ==
  /\ Done /\ blockReconciliationOfStatefulSet
  /\ \E i \in DOMAIN calls : calls[i].kind = "Pod"

\* What the StatefulSet waits for is there: a connection string with a
\* host:port pair (given, or of a ZookeeperCluster in the store with a
\* declared replica) and, when the external address is advertised, an address
\* on the Service of every node.
Materialized ==
  /\ cloud # NIL
  /\ LET inst  == [Deref(cloud) EXCEPT !.spec = WithDefaults(@)[2]]
         zkRef == inst.spec.zkRef
     IN  /\ IF zkRef.connectionInfo # NIL
              THEN Contains(Deref(zkRef.connectionInfo).internal, ":")
            ELSE /\ zkRef.provided # NIL /\ Deref(zkRef.provided).replicas >= 1
                 /\ zkCluster # NIL
         /\ AdvertisesExternal(inst) =>
              \A n \in NodesOf(inst) :
                nodeServices[n] # NIL /\ Deref(nodeServices[n]).clusterIP # ""

\* C22: once a pass has deferred the StatefulSet, whenever afterwards what it
\* waited for is in the store (the ZookeeperCluster with a declared replica,
\* an address on every per-node Service), the StatefulSet is eventually
\* created, given that a pass runs upon every change of an owned resource and
\* calls do not fail for ever; and a pass that defers and meets no failure
\* returns neither an error nor a requeue.
C22_DeferredWorkloadSetConverges ==
  /\ [](Deferred => [](Materialized => <>(statefulSet # NIL)))
  /\ []((Deferred /\ ~Failed(calls, result)) => result = ResultZero)

\* A pass deferred the StatefulSet for a node Service without an address, the
\* platform has given the address since, and the StatefulSet is there.
C22_Witness ==
  /\ Done /\ cloud # NIL /\ AdvertisesExternal(instance)
  /\ Deref(cloud).status.solrNodes = <<>>
  /\ \E i \in DOMAIN calls : calls[i] = Call("Create", "StatefulSet", "statefulset", "ok")
  /\ hostNameIpMap # {}

------------------------------------------------------------------------------
(* C23 *)

\* The finished pass ran to its end with no failure and changed nothing:
\* failure-free passes have nothing left to do.
SettledPass ==
  /\ Proceeded /\ ~Failed(calls, result) /\ ~Mutated
  /\ \E i \in DOMAIN calls : calls[i].kind = "Pod"

\* The connection info the store gives for the Zookeeper reference of inst.
StoreZk(inst) ==
  LET zkRef == inst.spec.zkRef
  IN  IF zkRef.connectionInfo # NIL THEN Deref(zkRef.connectionInfo)
      ELSE IF zkCluster = NIL THEN ZkInfoZero
      ELSE ProvidedZkConnectionInfo(
             GenerateZookeeperCluster(inst, Deref(zkRef.provided)),
             Deref(zkCluster), Deref(zkRef.provided))

\* The host aliases the store gives: the addresses of the per-node Services.
StoreHostAliases(inst) ==
  IF AdvertisesExternal(inst)
    THEN { <<n, Deref(nodeServices[n]).clusterIP>> :
             n \in { m \in NodesOf(inst) :
                       nodeServices[m] # NIL /\ Deref(nodeServices[m]).clusterIP # "" } }
  ELSE {}

\* The store keeps the StatefulSet waiting.
StoreBlocks(inst) ==
  \/ ~Contains(StoreZk(inst).internal \o StoreZk(inst).chroot, ":")
  \/ /\ AdvertisesExternal(inst)
     /\ \E n \in NodesOf(inst) :
          nodeServices[n] = NIL \/ Deref(nodeServices[n]).clusterIP = ""

\* The stored object is the generated one in every field the operator owns,
\* and is owned by the SolrCloud.
AsGenerated(stored, descriptor) ==
  /\ stored # NIL
  /\ Deref(stored).fields = descriptor.fields
  /\ Deref(stored).owner = "solrcloud"

\* The dependent resources of inst are all there and as generated from the
\* spec and from what the platform has added to the store (addresses, the
\* counts of the StatefulSet, the pods).
DependentsAsGenerated(inst) ==
  LET zkStatus == [StatusZero EXCEPT !.zk = StoreZk(inst)]
  IN  /\ ProvidedOnly(inst) =>
           AsGenerated(zkCluster,
                       GenerateZookeeperCluster(inst, Deref(inst.spec.zkRef.provided)))
      /\ AsGenerated(commonService, GenerateCommonService(inst))
      /\ UsesIndividualNodeServices(inst) =>
           \A n \in NodesOf(inst) :
             AsGenerated(nodeServices[n], GenerateNodeService(inst, n))
      /\ UsesHeadlessService(inst) =>
           AsGenerated(headlessService, GenerateHeadlessService(inst))
      /\ AsGenerated(configMap, GenerateConfigMap(inst))
      /\ ~StoreBlocks(inst) =>
           AsGenerated(statefulSet,
                       GenerateStatefulSet(inst, zkStatus, StoreHostAliases(inst)))
      /\ UsesIngress(inst) =>
           AsGenerated(ingress, GenerateIngress(inst, GetAllSolrNodeNames(inst)))

\* The status of inst as the store gives it.
StatusOfStore(inst) ==
  LET counted == IF StoreBlocks(inst) \/ statefulSet = NIL
                   THEN [StatusZero EXCEPT !.zk = StoreZk(inst)]
                 ELSE [StatusZero EXCEPT
                         !.zk = StoreZk(inst),
                         !.replicas = Deref(statefulSet).status.replicas,
                         !.readyReplicas = Deref(statefulSet).status.readyReplicas]
  IN  ReconcileCloudStatus(inst, counted, pods)

------------------------------------------------------------------------------
(* reconcileCloudStatus over pods with several containers *)

\* What the containers of a pod report: none has reported, or one or two
\* have, each ready or not.
ContainerReports ==
  {<<>>} \cup [1..1 -> BOOLEAN] \cup [1..2 -> BOOLEAN]

\* The pods the list call can return, by name order: each has any report of
\* its containers and runs the image of the spec.
ReportingPods ==
  UNION { { [i \in 1..n |->
               [name |-> i - 1, nodeName |-> "worker", containerStatuses |-> f[i],
                version |-> StatusTag, volumes |-> {}]] :
              f \in [1..n -> ContainerReports] } : n \in 0..MaxPods }

\* Normalized SolrClouds, addressed from outside or not.
ReportingClouds ==
  { [spec |-> [replicas |-> Some(MaxPods), tag |-> StatusTag,
               zkRef |-> [connectionInfo |->
                            Some([internal |-> <<"zk.example", ":", "2181">>,
                                  external |-> NIL, chroot |-> <<"/solr">>]),
                          provided |-> NIL],
               external |-> ext, backupRestoreVolume |-> NIL, rev |-> "plain"],
     status |-> StatusZero] :
      ext \in {NIL, Some([method |-> "ExternalDNS", useExternalAddress |-> FALSE,
                          hideNodes |-> FALSE, hideCommon |-> FALSE])} }

\* Reconcile is about to call reconcileCloudStatus (line 505).
ReportInit ==
  /\ useZkCRD = FALSE
  /\ cloud \in { Some(c) : c \in ReportingClouds }
  /\ zkCluster = NIL
  /\ commonService = NIL
  /\ nodeServices = [i \in 0..(MaxNodes - 1) |-> NIL]
  /\ headlessService = NIL
  /\ configMap = NIL
  /\ statefulSet = NIL
  /\ ingress = NIL
  /\ pods \in ReportingPods
  /\ pc = "status"
  /\ instance = Deref(cloud)
  /\ newStatus = [StatusZero EXCEPT !.zk = Deref(instance.spec.zkRef.connectionInfo)]
  /\ blockReconciliationOfStatefulSet = FALSE
  /\ hostNameIpMap = {}
  /\ nodeIdx = 0
  /\ err = NoErr
  /\ result = ResultZero
  /\ calls = <<Call("Get", "SolrCloud", "cloud", "ok")>>
  /\ faults = 0
  /\ prev = PrevZero
  /\ spe = NIL
  /\ defaultsChanged = FALSE
  /\ applied = 0
  /\ generated = NIL
  /\ staleReads = FALSE

ReportNext == CloudStatus

ReportSpec == ReportInit /\ [][ReportNext]_vars

------------------------------------------------------------------------------
(* C24 *)

\* C24: after status aggregation, in whatever order the platform listed the
\* pods, the per-node status array has one entry for each listed pod, in
\* ascending order of pod name, each entry with the name and the node of its
\* pod; an entry is ready exactly when its pod reports at least one container
\* and all the containers it reports are ready.
C24_NodeStatusDeterministic ==
  Aggregated =>
    /\ Len(newStatus.solrNodes) = Len(pods)
    /\ \A i \in DOMAIN newStatus.solrNodes :
         /\ newStatus.solrNodes[i].name = pods[i].name
         /\ newStatus.solrNodes[i].nodeName = pods[i].nodeName
         /\ \A j \in DOMAIN newStatus.solrNodes :
              i < j => newStatus.solrNodes[i].name < newStatus.solrNodes[j].name
         /\ newStatus.solrNodes[i].ready <=>
              /\ Len(pods[i].containerStatuses) > 0
              /\ \A c \in DOMAIN pods[i].containerStatuses : pods[i].containerStatuses[c]

\* Three pods were aggregated: one with no report (not ready), one with a
\* container that is not ready (not ready), one with two ready containers
\* (ready).
C24_Witness ==
  /\ Aggregated /\ Len(pods) = 3
  /\ pods[1].containerStatuses = <<>> /\ ~newStatus.solrNodes[1].ready
  /\ pods[2].containerStatuses = <<TRUE, FALSE>> /\ ~newStatus.solrNodes[2].ready
  /\ pods[3].containerStatuses = <<TRUE, TRUE>> /\ newStatus.solrNodes[3].ready

------------------------------------------------------------------------------
(* The descriptor generators of the SolrPrometheusExporter *)

\* solr.SolrPrometheusExporterTechnologyLabel
SolrPrometheusExporterTechnologyLabel == "solr-prometheus-exporter"

\* strconv.Itoa(SolrMetricsPort), strconv.Itoa(ExtSolrMetricsPort)
SolrMetricsPort == "8080"

ExtSolrMetricsPort == "80"

DefaultPrometheusExporterEntrypoint ==
  "/opt/solr/contrib/prometheus-exporter/bin/solr-exporter"

\* m[k] = v on a Go map; a nil map reads as the empty one.
MapPut(m, k, v) == [x \in DOMAIN m \cup {k} |-> IF x = k THEN v ELSE m[x]]

\* SolrPrometheusExporter.SharedLabelsWith: a new map with the given labels
\* and the technology label of the exporter.
SharedLabelsWith(e, labels) ==
  MapPut([k \in DOMAIN labels |-> labels[k]],
         SolrPrometheusExporterTechnologyLabel, e.name)

\* SolrPrometheusExporter.SharedLabels
SharedLabels(e) == SharedLabelsWith(e, <<>>)

\* MetricsDeploymentName, MetricsConfigMapName, MetricsServiceName
MetricsName(e) == e.name \o "-solr-metrics"

\* &solr.PodOptions{}
PodOptionsZero == [affinity |-> NIL, resources |-> [limits |-> NIL, requests |-> NIL]]

\* The connection flag of the exporter: -z for a cloud, else -b for a
\* standalone Solr, else nothing.
ConnectionArgs(solrConnectionInfo) ==
  IF solrConnectionInfo.cloudZkConnnectionString # ""
    THEN <<"-z", solrConnectionInfo.cloudZkConnnectionString>>
  ELSE IF solrConnectionInfo.standaloneAddress # ""
    THEN <<"-b", solrConnectionInfo.standaloneAddress>>
  ELSE <<>>

\* util.GenerateSolrPrometheusExporterDeployment: the Deployment it returns
\* and the exporter it was given, as the call leaves it.
GenerateSolrPrometheusExporterDeployment(e, solrConnectionInfo) ==
  LET labels         == MapPut(SharedLabelsWith(e, e.labels), "technology",
                               SolrPrometheusExporterTechnologyLabel)
      selectorLabels == MapPut(SharedLabels(e), "technology",
                               SolrPrometheusExporterTechnologyLabel)
      custom         == e.spec.config # ""
      exporterArgs   ==
        <<"-p", SolrMetricsPort, "-n", ToString(e.spec.numThreads)>>
        \o (IF e.spec.scrapeInterval > 0
              THEN <<"-s", ToString(e.spec.scrapeInterval)>> ELSE <<>>)
        \o ConnectionArgs(solrConnectionInfo)
        \o (IF custom THEN <<"-f", "/opt/solr-exporter/solr-prometheus-exporter.xml">>
            ELSE <<"-f", "/opt/solr/contrib/prometheus-exporter/conf/solr-exporter-config.xml">>)
      entrypoint     == IF e.spec.exporterEntrypoint # "" THEN e.spec.exporterEntrypoint
                        ELSE DefaultPrometheusExporterEntrypoint
      after          == IF e.spec.podOptions = NIL
                          THEN [e EXCEPT !.spec.podOptions = Some(PodOptionsZero)]
                        ELSE e
      podOptions     == Deref(after.spec.podOptions)
  IN  [ exporter   |-> after,
        descriptor |->
          [ name             |-> MetricsName(e),
            namespace        |-> e.namespace,
            labels           |-> labels,
            selector         |-> selectorLabels,
            volumes          |-> IF custom THEN {"solr-prometheus-exporter-xml"} ELSE {},
            image            |-> e.spec.image.repository \o ":" \o e.spec.image.tag,
            command          |-> <<entrypoint>>,
            args             |-> exporterArgs,
            imagePullSecrets |-> IF e.spec.image.imagePullSecret # ""
                                   THEN <<e.spec.image.imagePullSecret>> ELSE <<>>,
            affinity         |-> podOptions.affinity,
            resources        |-> IF podOptions.resources.limits # NIL
                                    \/ podOptions.resources.requests # NIL
                                   THEN podOptions.resources
                                 ELSE PodOptionsZero.resources ] ]

\* util.GenerateMetricsConfigMap
GenerateMetricsConfigMap(e) ==
  [ exporter   |-> e,
    descriptor |->
      [ name      |-> MetricsName(e),
        namespace |-> e.namespace,
        labels    |-> SharedLabelsWith(e, e.labels),
        data      |-> e.spec.config ] ]

\* util.GenerateSolrMetricsService
GenerateSolrMetricsService(e) ==
  [ exporter   |-> e,
    descriptor |->
      [ name        |-> MetricsName(e),
        namespace   |-> e.namespace,
        labels      |-> MapPut(SharedLabelsWith(e, e.labels), "service-type", "metrics"),
        annotations |-> MapPut(<<>>, "prometheus.io/port", ExtSolrMetricsPort),
        selector    |-> MapPut(SharedLabels(e), "technology",
                               SolrPrometheusExporterTechnologyLabel) ] ]

\* The pod options a user gives.
UserPodOptions ==
  { [affinity |-> a, resources |-> [limits |-> l, requests |-> NIL]] :
      a \in {NIL, Some("zone")}, l \in {NIL, Some("1cpu")} }

\* The exporters the generators are called with: WithDefaults has been
\* applied; the pod options, the labels, the configuration and the scrape
\* interval are as the user gave them, set or not.
DefaultedExporters ==
  { [ name      |-> "metrics",
      namespace |-> "ns",
      labels    |-> lb,
      spec      |-> [ image              |-> [repository |-> DefaultSolrRepo,
                                              tag |-> DefaultSolrVersion,
                                              imagePullSecret |-> ""],
                      numThreads         |-> nt,
                      scrapeInterval     |-> si,
                      config             |-> cfg,
                      exporterEntrypoint |-> "",
                      podOptions         |-> po ] ] :
      lb  \in {<<>>, MapPut(<<>>, "team", "search")},
      nt  \in 1..MaxNumThreads,
      si  \in {0, DefaultScrapeInterval},
      cfg \in {"", "<config/>"},
      po  \in {NIL} \cup { Some(o) : o \in UserPodOptions } }

\* The connection infos the exporter's controller passes: the Zookeeper
\* connection string of a cloud, the address of a standalone Solr, both, or
\* neither (a reference that names neither, or a cloud whose connection string
\* is not known yet).
SolrConnectionInfos ==
  { [cloudZkConnnectionString |-> z, standaloneAddress |-> b] :
      z \in {"", "zk.example:2181/solr"}, b \in {"", "http://solr:8983"} }

GenerateInit ==
  /\ useZkCRD = FALSE
  /\ cloud = NIL
  /\ zkCluster = NIL
  /\ commonService = NIL
  /\ nodeServices = [i \in 0..(MaxNodes - 1) |-> NIL]
  /\ headlessService = NIL
  /\ configMap = NIL
  /\ statefulSet = NIL
  /\ ingress = NIL
  /\ pods = <<>>
  /\ pc = "idle"
  /\ instance = InstanceZero
  /\ newStatus = StatusZero
  /\ blockReconciliationOfStatefulSet = FALSE
  /\ hostNameIpMap = {}
  /\ nodeIdx = 0
  /\ err = NoErr
  /\ result = ResultZero
  /\ calls = <<>>
  /\ faults = 0
  /\ prev = PrevZero
  /\ spe \in { Some(e) : e \in DefaultedExporters }
  /\ defaultsChanged = FALSE
  /\ applied = 0
  /\ generated = NIL
  /\ staleReads = FALSE

\* The call returned r: the descriptor is kept and the exporter is as the
\* call left it.
Generated(kind, solrConnectionInfo, r) ==
  /\ spe' = Some(r.exporter)
  /\ generated' = Some([kind |-> kind, info |-> solrConnectionInfo,
                        descriptor |-> r.descriptor])
  /\ applied' = applied + 1
  /\ UNCHANGED <<useZkCRD, storeVars, pc, localVars, result, calls, faults, prev,
                 defaultsChanged, staleReads>>

NoConnectionInfo == [cloudZkConnnectionString |-> "", standaloneAddress |-> ""]

DeploymentGenerated ==
  /\ spe # NIL /\ applied < MaxApplications
  /\ \E info \in SolrConnectionInfos :
       Generated("Deployment", info,
                 GenerateSolrPrometheusExporterDeployment(Deref(spe), info))

MetricsConfigMapGenerated ==
  /\ spe # NIL /\ applied < MaxApplications
  /\ Generated("ConfigMap", NoConnectionInfo, GenerateMetricsConfigMap(Deref(spe)))

MetricsServiceGenerated ==
  /\ spe # NIL /\ applied < MaxApplications
  /\ Generated("Service", NoConnectionInfo, GenerateSolrMetricsService(Deref(spe)))

GenerateNext ==
  \/ DeploymentGenerated
  \/ MetricsConfigMapGenerated
  \/ MetricsServiceGenerated

GenerateSpec == GenerateInit /\ [][GenerateNext]_vars

------------------------------------------------------------------------------
(* C25 *)

\* C25 as stated: a call of GenerateSolrPrometheusExporterDeployment,
\* GenerateMetricsConfigMap or GenerateSolrMetricsService leaves the exporter
\* it is given as it was, spec and labels, also when the pod options are unset.
C25_GeneratorsLeaveExporterUnchanged ==
  [][ applied' = applied + 1 => spe' = spe ]_vars

------------------------------------------------------------------------------
(* C26 *)

\* The positions of a flag in an argument list.
FlagAt(args, flag) == { i \in DOMAIN args : args[i] = flag }

\* C26 as stated: the arguments of a generated exporter Deployment hold one
\* connection flag, whatever the connection info: -z followed by the
\* Zookeeper connection string or -b followed by the standalone address, not
\* both and not neither.
C26_OneConnectionFlag ==
  (generated # NIL /\ Deref(generated).kind = "Deployment") =>
    LET args == Deref(generated).descriptor.args
        info == Deref(generated).info
    IN  /\ Cardinality(FlagAt(args, "-z") \cup FlagAt(args, "-b")) = 1
        /\ \A i \in FlagAt(args, "-z") : args[i + 1] = info.cloudZkConnnectionString
        /\ \A i \in FlagAt(args, "-b") : args[i + 1] = info.standaloneAddress

------------------------------------------------------------------------------
(* Passes that read dependent resources from a lagging cache *)

StaleInit ==
  /\ useZkCRD = TRUE
  /\ cloud = NIL
  /\ zkCluster = NIL
  /\ commonService = NIL
  /\ nodeServices = [i \in 0..(MaxNodes - 1) |-> NIL]
  /\ headlessService = NIL
  /\ configMap = NIL
  /\ statefulSet = NIL
  /\ ingress = NIL
  /\ pods = <<>>
  /\ pc = "idle"
  /\ instance = InstanceZero
  /\ newStatus = StatusZero
  /\ blockReconciliationOfStatefulSet = FALSE
  /\ hostNameIpMap = {}
  /\ nodeIdx = 0
  /\ err = NoErr
  /\ result = ResultZero
  /\ calls = <<>>
  /\ faults = 0
  /\ prev = PrevZero
  /\ spe = NIL
  /\ defaultsChanged = FALSE
  /\ applied = 0
  /\ generated = NIL
  /\ staleReads = TRUE

StaleNext ==
  \/ UserCreates
  \/ PlatformAssignsClusterIP
  \/ WorkloadRuns
  \/ Fetch
  \/ Defaults
  \/ ReconcileZk
  \/ CommonService
  \/ NodeService
  \/ HeadlessService
  \/ ConfigMap
  \/ StatefulSet
  \/ CloudStatus
  \/ Ingress
  \/ StatusUpdate

StaleSpec == StaleInit /\ [][StaleNext]_vars

------------------------------------------------------------------------------
(* C27 *)

\* The step issues a Create for this object.
Creates(kind, name) ==
  \E i \in DOMAIN calls' :
    /\ i > Len(calls) /\ pc \notin {"idle", "done"}
    /\ calls'[i].op = "Create" /\ calls'[i].kind = kind /\ calls'[i].name = name

\* A Create issued for an object that is in the store leaves it as it is.
Refused(kind, name, stored, after) ==
  (stored # NIL /\ Creates(kind, name)) => after = stored

CreateOfExistingRefused ==
  /\ Refused("ZookeeperCluster", "zk", zkCluster, zkCluster')
  /\ Refused("Service", "common", commonService, commonService')
  /\ \A n \in DOMAIN nodeServices :
       Refused("Service", NodeCallName(n), nodeServices[n], nodeServices'[n])
  /\ Refused("Service", "headless", headlessService, headlessService')
  /\ Refused("ConfigMap", "configmap", configMap, configMap')
  /\ Refused("StatefulSet", "statefulset", statefulSet, statefulSet')
  /\ Refused("Ingress", "ingress", ingress, ingress')

------------------------------------------------------------------------------
(* Passes on a running cloud whose shape changes *)

ResizeInit == EditInit

ResizeNext ==
  \/ UserCreates
  \/ UserReshapes
  \/ PlatformAssignsClusterIP
  \/ WorkloadRuns
  \/ Fetch
  \/ Defaults
  \/ ReconcileZk
  \/ CommonService
  \/ NodeService
  \/ HeadlessService
  \/ ConfigMap
  \/ StatefulSet
  \/ CloudStatus
  \/ Ingress
  \/ StatusUpdate

ResizeSpec == ResizeInit /\ [][ResizeNext]_vars

------------------------------------------------------------------------------
(* C28 *)

\* The StatefulSet step of the pass ran and its Get found the StatefulSet.
FoundStatefulSet ==
  \E i \in DOMAIN calls : calls[i] = Call("Get", "StatefulSet", "statefulset", "ok")

\* The counts the pass puts in the new status.
CountsOfPass ==
  IF FoundStatefulSet
    THEN [replicas |-> Deref(statefulSet).status.replicas,
          readyReplicas |-> Deref(statefulSet).status.readyReplicas]
  ELSE [replicas |-> 0, readyReplicas |-> 0]

HasCounts(status) ==
  /\ status.replicas = CountsOfPass.replicas
  /\ status.readyReplicas = CountsOfPass.readyReplicas

\* C28: the new status carries the counts the live StatefulSet reports exactly
\* when the StatefulSet step of the pass ran and found the StatefulSet; when
\* the step was deferred or the StatefulSet was just created the counts are 0,
\* whatever the StatefulSet in the store reports, and a pass that persists
\* its status persists these counts over the ones persisted before.
C28_CountsOnlyWhenFound ==
  /\ [](HasCounts(newStatus))
  /\ [][(pc = "persist" /\ cloud' # cloud) => HasCounts(Deref(cloud').status)]_vars

\* A deferred pass on a running cloud is about to persist 0 over the counts
\* persisted before.
C28_Witness ==
  /\ pc = "persist"
  /\ blockReconciliationOfStatefulSet
  /\ statefulSet # NIL /\ Deref(statefulSet).status.replicas > 0
  /\ instance.status.replicas > 0 /\ instance.status.readyReplicas > 0
  /\ newStatus.replicas = 0 /\ newStatus.readyReplicas = 0

------------------------------------------------------------------------------
(* C29 *)

\* The pass found the ZookeeperCluster absent and created it.
Provisioning ==
  /\ \E i \in DOMAIN calls : calls[i] = Call("Get", "ZookeeperCluster", "zk", "notfound")
  /\ \E i \in DOMAIN calls : calls[i] = Call("Create", "ZookeeperCluster", "zk", "ok")

\* The pass found the ZookeeperCluster present.
FoundZkCluster ==
  \E i \in DOMAIN calls : calls[i] = Call("Get", "ZookeeperCluster", "zk", "ok")

\* The pass wrote the StatefulSet.
WroteStatefulSet ==
  \E i \in DOMAIN calls :
    calls[i].kind = "StatefulSet" /\ calls[i].op \in {"Create", "Update"}

\* C29: in a pass that finds the ZookeeperCluster absent and creates it, the
\* connection info of the new status stays empty, the pass makes no call for
\* the StatefulSet, and the status it leaves persisted has an empty connection
\* string; a pass for a provided Zookeeper that writes the StatefulSet has
\* found the ZookeeperCluster present.
C29_NoWorkloadSetWhileProvisioning ==
  /\ Provisioning =>
       /\ newStatus.zk = ZkInfoZero
       /\ \A i \in DOMAIN calls : calls[i].kind # "StatefulSet"
       /\ (Done /\ ~Failed(calls, result)) =>
            ZkConnectionString(Deref(cloud).status) = ZkConnectionString(StatusZero)
  /\ (WroteStatefulSet /\ ZkBranch(instance.spec.zkRef, useZkCRD) = "provide")
       => FoundZkCluster

\* A pass created the ZookeeperCluster, went on to the end and persisted its
\* status.
C29_Witness ==
  /\ Done /\ Provisioning /\ ~Failed(calls, result)
  /\ \E i \in DOMAIN calls : calls[i] = Call("StatusUpdate", "SolrCloud", "cloud", "ok")
  /\ zkCluster # NIL /\ statefulSet = NIL

====
